---- MODULE Spec2Model ----
(***************************************************************************)
(* Model of the BP analysis service (AI Analysis/bp-analysis-service):     *)
(* the process-wide AnalysisCache (app/utils/cache.py), the seven          *)
(* transport handlers and the invalidate endpoint                          *)
(* (app/routers/analysis.py) and the analytic routines (app/services).     *)
(*                                                                         *)
(* Four specifications share the definitions below:                        *)
(*   SpecCache     the AnalysisCache API driven directly                   *)
(*   Spec          the transport handlers over the cache and the store     *)
(*   SpecRoutines  the analytic routines applied to bounded inputs         *)
(*   SpecConcurrent  requests interleaved at their suspension points       *)
(***************************************************************************)
EXTENDS Integers, Sequences, FiniteSets, TLC

VARIABLES
  cache,    \* AnalysisCache._cache: [created, items]; items in TTLCache link order
  now,      \* the timer of the TTLCache / the wall clock, in seconds
  used,     \* history: keys of the entries set so far, with the time of their last set, by recency of use
  last,     \* outcome of the most recent operation, as the caller sees it
  db,       \* the external store: patient id -> index of its data set (0: no such patient)
  client,   \* Spec: the patient and the endpoint the requests of this behaviour go to
  nreq,     \* Spec: number of requests handled so far
  inp,      \* SpecRoutines: the input a routine is applied to
  run1,     \* SpecRoutines: outcome of a first computation on inp
  run2,     \* SpecRoutines: outcome of a second computation on inp
  calls     \* SpecConcurrent: the requests in flight, each with its position in its handler

vars == <<cache, now, used, last, db, client, nreq, inp, run1, run2, calls>>

----------------------------------------------------------------------------
(* Settings (app/config.py) *)

\* cache_ttl: seconds an entry lives after it was set
cache_ttl == 1800

\* cache_max_size: configured capacity of the cache. The default is 100; the
\* model runs the service configured with a small capacity so that overflow
\* is reached.
cache_max_size == 2

min_readings_for_analysis == 7

default_analysis_days == 30

(* Bounds of the model *)

\* seconds that pass in one step of the clock
TickSeconds == 900

\* the clock stops advancing here
MaxNow == 2700

None == [tag |-> "None"]

\* absent numeric field of a record of the store
NoneInt == -1

\* The patient ids of the model: an id that is no hexadecimal string and a
\* numeric id.
Patients == {"p1", "7"}

\* the characters of the strings of the model: the patient ids and the
\* hexadecimal digests of Md5Hexdigest
StrChars ==
     ("p1" :> <<"p", "1">>)
  @@ ("7" :> <<"7">>)
  @@ ("57571d5a2971808ef267dec110a0d751" :> <<"5","7","5","7","1","d","5","a","2","9","7","1","8","0","8","e","f","2","6","7","d","e","c","1","1","0","a","0","d","7","5","1">>)
  @@ ("99317a5264558f1744f262ef264dbe04" :> <<"9","9","3","1","7","a","5","2","6","4","5","5","8","f","1","7","4","4","f","2","6","2","e","f","2","6","4","d","b","e","0","4">>)
  @@ ("5f821835dabcd00c6e50049f5cd23d0b" :> <<"5","f","8","2","1","8","3","5","d","a","b","c","d","0","0","c","6","e","5","0","0","4","9","f","5","c","d","2","3","d","0","b">>)
  @@ ("f755bb33d3f46d012555b01bf43443a5" :> <<"f","7","5","5","b","b","3","3","d","3","f","4","6","d","0","1","2","5","5","5","b","0","1","b","f","4","3","4","4","3","a","5">>)
  @@ ("832e1ff23cf0ecc8ead4189ab50f1563" :> <<"8","3","2","e","1","f","f","2","3","c","f","0","e","c","c","8","e","a","d","4","1","8","9","a","b","5","0","f","1","5","6","3">>)
  @@ ("bb2cac1052d1d227f0d581f45e57739f" :> <<"b","b","2","c","a","c","1","0","5","2","d","1","d","2","2","7","f","0","d","5","8","1","f","4","5","e","5","7","7","3","9","f">>)
  @@ ("b98df7b603c7b3e9bba6490347a9e99b" :> <<"b","9","8","d","f","7","b","6","0","3","c","7","b","3","e","9","b","b","a","6","4","9","0","3","4","7","a","9","e","9","9","b">>)
  @@ ("5081651e9a4596c270354a744736ecbd" :> <<"5","0","8","1","6","5","1","e","9","a","4","5","9","6","c","2","7","0","3","5","4","a","7","4","4","7","3","6","e","c","b","d">>)
  @@ ("2a1fbbfbd2cb20cf5f6e09abe77505a0" :> <<"2","a","1","f","b","b","f","b","d","2","c","b","2","0","c","f","5","f","6","e","0","9","a","b","e","7","7","5","0","5","a","0">>)
  @@ ("f6bb93962175cc18e53e71cce9bcbda5" :> <<"f","6","b","b","9","3","9","6","2","1","7","5","c","c","1","8","e","5","3","e","7","1","c","c","e","9","b","c","b","d","a","5">>)
  @@ ("5f721b3847648e13bbc1e99ad13a71a3" :> <<"5","f","7","2","1","b","3","8","4","7","6","4","8","e","1","3","b","b","c","1","e","9","9","a","d","1","3","a","7","1","a","3">>)
  @@ ("364184e37bf5cdc3199d57ac77a60c2c" :> <<"3","6","4","1","8","4","e","3","7","b","f","5","c","d","c","3","1","9","9","d","5","7","a","c","7","7","a","6","0","c","2","c">>)
  @@ ("37be8971bc99687348975c3450656bc4" :> <<"3","7","b","e","8","9","7","1","b","c","9","9","6","8","7","3","4","8","9","7","5","c","3","4","5","0","6","5","6","b","c","4">>)
  @@ ("9f38654aec660bd67c43c6af7ad0864c" :> <<"9","f","3","8","6","5","4","a","e","c","6","6","0","b","d","6","7","c","4","3","c","6","a","f","7","a","d","0","8","6","4","c">>)
  @@ ("584b1936c51ff6200b67c7bc3e63915f" :> <<"5","8","4","b","1","9","3","6","c","5","1","f","f","6","2","0","0","b","6","7","c","7","b","c","3","e","6","3","9","1","5","f">>)
  @@ ("14e51e67c7454397e6ac3d91b6cba5d7" :> <<"1","4","e","5","1","e","6","7","c","7","4","5","4","3","9","7","e","6","a","c","3","d","9","1","b","6","c","b","a","5","d","7">>)
  @@ ("a87a6e8e608b2979a2fec87123cd1ae9" :> <<"a","8","7","a","6","e","8","e","6","0","8","b","2","9","7","9","a","2","f","e","c","8","7","1","2","3","c","d","1","a","e","9">>)
  @@ ("9835129e185dd93f8313449f8232c457" :> <<"9","8","3","5","1","2","9","e","1","8","5","d","d","9","3","f","8","3","1","3","4","4","9","f","8","2","3","2","c","4","5","7">>)
  @@ ("c203a70f0a6efe7530efc66a82d5e386" :> <<"c","2","0","3","a","7","0","f","0","a","6","e","f","e","7","5","3","0","e","f","c","6","6","a","8","2","d","5","e","3","8","6">>)
  @@ ("ff8d74adf7e62c5fc2efb990c852e54e" :> <<"f","f","8","d","7","4","a","d","f","7","e","6","2","c","5","f","c","2","e","f","b","9","9","0","c","8","5","2","e","5","4","e">>)
  @@ ("8416bd0bdf27fa5b6479b614ba484294" :> <<"8","4","1","6","b","d","0","b","d","f","2","7","f","a","5","b","6","4","7","9","b","6","1","4","b","a","4","8","4","2","9","4">>)
  @@ ("16f645cbe1aea23d8159dc0b899d895c" :> <<"1","6","f","6","4","5","c","b","e","1","a","e","a","2","3","d","8","1","5","9","d","c","0","b","8","9","9","d","8","9","5","c">>)
  @@ ("40eaf4370550633e754e59d7fe54ea7c" :> <<"4","0","e","a","f","4","3","7","0","5","5","0","6","3","3","e","7","5","4","e","5","9","d","7","f","e","5","4","e","a","7","c">>)
  @@ ("3056ccb1264102bd46bec0a6f6117474" :> <<"3","0","5","6","c","c","b","1","2","6","4","1","0","2","b","d","4","6","b","e","c","0","a","6","f","6","1","1","7","4","7","4">>)
  @@ ("7dfdaaebf4693c22ef1a1aade14382b6" :> <<"7","d","f","d","a","a","e","b","f","4","6","9","3","c","2","2","e","f","1","a","1","a","a","d","e","1","4","3","8","2","b","6">>)
  @@ ("9d331723c9a63d24d9ceca34ad769d40" :> <<"9","d","3","3","1","7","2","3","c","9","a","6","3","d","2","4","d","9","c","e","c","a","3","4","a","d","7","6","9","d","4","0">>)
  @@ ("bf9edcc416b429e3d57e4ea46268f735" :> <<"b","f","9","e","d","c","c","4","1","6","b","4","2","9","e","3","d","5","7","e","4","e","a","4","6","2","6","8","f","7","3","5">>)
  @@ ("3da797be281f5e1b0e89fbe5e1aa7744" :> <<"3","d","a","7","9","7","b","e","2","8","1","f","5","e","1","b","0","e","8","9","f","b","e","5","e","1","a","a","7","7","4","4">>)
  @@ ("2b14b242a0d5e05497ed48fd3d778fdd" :> <<"2","b","1","4","b","2","4","2","a","0","d","5","e","0","5","4","9","7","e","d","4","8","f","d","3","d","7","7","8","f","d","d">>)
  @@ ("c3a7fa4bef85b60bdb8532a8e7908106" :> <<"c","3","a","7","f","a","4","b","e","f","8","5","b","6","0","b","d","b","8","5","3","2","a","8","e","7","9","0","8","1","0","6">>)
  @@ ("e0f02e26b2fd62bb72f9c92431346c34" :> <<"e","0","f","0","2","e","2","6","b","2","f","d","6","2","b","b","7","2","f","9","c","9","2","4","3","1","3","4","6","c","3","4">>)
  @@ ("79c851e81218d9010559d776411c19dd" :> <<"7","9","c","8","5","1","e","8","1","2","1","8","d","9","0","1","0","5","5","9","d","7","7","6","4","1","1","c","1","9","d","d">>)
  @@ ("d4b35651d488b2d811e5737d92209d5b" :> <<"d","4","b","3","5","6","5","1","d","4","8","8","b","2","d","8","1","1","e","5","7","3","7","d","9","2","2","0","9","d","5","b">>)
  @@ ("4c90a92570af0c4517ed19f623653b8e" :> <<"4","c","9","0","a","9","2","5","7","0","a","f","0","c","4","5","1","7","e","d","1","9","f","6","2","3","6","5","3","b","8","e">>)
  @@ ("17734986af1ca1b4d3635af230b01611" :> <<"1","7","7","3","4","9","8","6","a","f","1","c","a","1","b","4","d","3","6","3","5","a","f","2","3","0","b","0","1","6","1","1">>)
  @@ ("de70378c4df940929d63c0d6810d1283" :> <<"d","e","7","0","3","7","8","c","4","d","f","9","4","0","9","2","9","d","6","3","c","0","d","6","8","1","0","d","1","2","8","3">>)
  @@ ("09ae1aae639c5a020f8604993a860557" :> <<"0","9","a","e","1","a","a","e","6","3","9","c","5","a","0","2","0","f","8","6","0","4","9","9","3","a","8","6","0","5","5","7">>)
  @@ ("60e210cfcf068bff1c0e726903ebcc8b" :> <<"6","0","e","2","1","0","c","f","c","f","0","6","8","b","f","f","1","c","0","e","7","2","6","9","0","3","e","b","c","c","8","b">>)
  @@ ("4087b765889d8d58eb85ca050eef5134" :> <<"4","0","8","7","b","7","6","5","8","8","9","d","8","d","5","8","e","b","8","5","c","a","0","5","0","e","e","f","5","1","3","4">>)
  @@ ("1a981ccf4e47685f6cbddd4ed1bc1683" :> <<"1","a","9","8","1","c","c","f","4","e","4","7","6","8","5","f","6","c","b","d","d","d","4","e","d","1","b","c","1","6","8","3">>)
  @@ ("cd8c1eb7504f585bb1e314f9a842f9d7" :> <<"c","d","8","c","1","e","b","7","5","0","4","f","5","8","5","b","b","1","e","3","1","4","f","9","a","8","4","2","f","9","d","7">>)
  @@ ("0d73a9790aa3c61c9d96747502236fc9" :> <<"0","d","7","3","a","9","7","9","0","a","a","3","c","6","1","c","9","d","9","6","7","4","7","5","0","2","2","3","6","f","c","9">>)
  @@ ("7b627f136963f7697f4f4de3b19a672f" :> <<"7","b","6","2","7","f","1","3","6","9","6","3","f","7","6","9","7","f","4","f","4","d","e","3","b","1","9","a","6","7","2","f">>)
  @@ ("cf65be7ff7c1d56303c945f605ea2489" :> <<"c","f","6","5","b","e","7","f","f","7","c","1","d","5","6","3","0","3","c","9","4","5","f","6","0","5","e","a","2","4","8","9">>)
  @@ ("94f2a07f7da74c3e9bcb621da71174b7" :> <<"9","4","f","2","a","0","7","f","7","d","a","7","4","c","3","e","9","b","c","b","6","2","1","d","a","7","1","1","7","4","b","7">>)
  @@ ("df02229a71f79042bfb705fcfa49844a" :> <<"d","f","0","2","2","2","9","a","7","1","f","7","9","0","4","2","b","f","b","7","0","5","f","c","f","a","4","9","8","4","4","a">>)
  @@ ("e7d6a236be7d3807b1abe8a2cdb064ed" :> <<"e","7","d","6","a","2","3","6","b","e","7","d","3","8","0","7","b","1","a","b","e","8","a","2","c","d","b","0","6","4","e","d">>)
  @@ ("e492876736938882e79bd978756415f5" :> <<"e","4","9","2","8","7","6","7","3","6","9","3","8","8","8","2","e","7","9","b","d","9","7","8","7","5","6","4","1","5","f","5">>)
  @@ ("6cb70562e9514b3e8733ae01bf553e9c" :> <<"6","c","b","7","0","5","6","2","e","9","5","1","4","b","3","e","8","7","3","3","a","e","0","1","b","f","5","5","3","e","9","c">>)
  @@ ("81c273372b1cfa7cac4ae40b168defa6" :> <<"8","1","c","2","7","3","3","7","2","b","1","c","f","a","7","c","a","c","4","a","e","4","0","b","1","6","8","d","e","f","a","6">>)
  @@ ("e5b3ce573e0a4d0dd747ffd3dc069e0d" :> <<"e","5","b","3","c","e","5","7","3","e","0","a","4","d","0","d","d","7","4","7","f","f","d","3","d","c","0","6","9","e","0","d">>)
  @@ ("24453b7f7ea19375b8d7ad1e122f13c9" :> <<"2","4","4","5","3","b","7","f","7","e","a","1","9","3","7","5","b","8","d","7","a","d","1","e","1","2","2","f","1","3","c","9">>)
  @@ ("07022b9a8a344a90c496974054548008" :> <<"0","7","0","2","2","b","9","a","8","a","3","4","4","a","9","0","c","4","9","6","9","7","4","0","5","4","5","4","8","0","0","8">>)
  @@ ("4093949b440515306e7774f293aaf6fb" :> <<"4","0","9","3","9","4","9","b","4","4","0","5","1","5","3","0","6","e","7","7","7","4","f","2","9","3","a","a","f","6","f","b">>)
  @@ ("59f647ad8d3e94039e5476c5b868faa6" :> <<"5","9","f","6","4","7","a","d","8","d","3","e","9","4","0","3","9","e","5","4","7","6","c","5","b","8","6","8","f","a","a","6">>)
  @@ ("bc92bba7b3867205fe8b0d7100de7ed2" :> <<"b","c","9","2","b","b","a","7","b","3","8","6","7","2","0","5","f","e","8","b","0","d","7","1","0","0","d","e","7","e","d","2">>)
  @@ ("7a2dfa879b1ac00f64535cdc23e400c4" :> <<"7","a","2","d","f","a","8","7","9","b","1","a","c","0","0","f","6","4","5","3","5","c","d","c","2","3","e","4","0","0","c","4">>)
  @@ ("4490b60decbc621e0f17028f0fd8fb4b" :> <<"4","4","9","0","b","6","0","d","e","c","b","c","6","2","1","e","0","f","1","7","0","2","8","f","0","f","d","8","f","b","4","b">>)
  @@ ("a26dac5ac020b23de01ab48ed8333086" :> <<"a","2","6","d","a","c","5","a","c","0","2","0","b","2","3","d","e","0","1","a","b","4","8","e","d","8","3","3","3","0","8","6">>)
  @@ ("7b96075be18316ef12120d599409e9ff" :> <<"7","b","9","6","0","7","5","b","e","1","8","3","1","6","e","f","1","2","1","2","0","d","5","9","9","4","0","9","e","9","f","f">>)
  @@ ("0ecea634d3728f283948630b075cb245" :> <<"0","e","c","e","a","6","3","4","d","3","7","2","8","f","2","8","3","9","4","8","6","3","0","b","0","7","5","c","b","2","4","5">>)
  @@ ("4b11cf1645044374b2c47601d723c015" :> <<"4","b","1","1","c","f","1","6","4","5","0","4","4","3","7","4","b","2","c","4","7","6","0","1","d","7","2","3","c","0","1","5">>)
  @@ ("c58f01fdb757cfc90f55f68503ce5eb6" :> <<"c","5","8","f","0","1","f","d","b","7","5","7","c","f","c","9","0","f","5","5","f","6","8","5","0","3","c","e","5","e","b","6">>)
  @@ ("42cd5d2ac129dd6c455873ace4fab7f8" :> <<"4","2","c","d","5","d","2","a","c","1","2","9","d","d","6","c","4","5","5","8","7","3","a","c","e","4","f","a","b","7","f","8">>)
  @@ ("b07e69a9012054d90d3ea186cb24381f" :> <<"b","0","7","e","6","9","a","9","0","1","2","0","5","4","d","9","0","d","3","e","a","1","8","6","c","b","2","4","3","8","1","f">>)
  @@ ("a9b4cf6170eba28e6bd0127d6604529f" :> <<"a","9","b","4","c","f","6","1","7","0","e","b","a","2","8","e","6","b","d","0","1","2","7","d","6","6","0","4","5","2","9","f">>)

AnalysisTypes ==
  {"insights", "risk_assessment", "predictions", "health_score",
   "patterns", "correlations", "forecast"}

----------------------------------------------------------------------------
(* AnalysisCache._make_key *)

\* alphabetical rank of the names that occur in key_data (sort_keys=True)
KeyRank ==
  [days |-> 1, metric |-> 2, patient_id |-> 3, type |-> 4]

\* insert a <<name, value>> pair into a list sorted by name; a name already
\* present is overwritten (dict semantics)
RECURSIVE InsertSorted(_, _)
InsertSorted(pair, sorted) ==
  IF sorted = <<>> THEN <<pair>>
  ELSE IF pair[1] = Head(sorted)[1] THEN <<pair>> \o Tail(sorted)
  ELSE IF KeyRank[pair[1]] < KeyRank[Head(sorted)[1]] THEN <<pair>> \o sorted
  ELSE <<Head(sorted)>> \o InsertSorted(pair, Tail(sorted))

RECURSIVE SortKeys(_)
SortKeys(pairs) ==
  IF pairs = <<>> THEN <<>>
  ELSE InsertSorted(pairs[Len(pairs)], SortKeys(SubSeq(pairs, 1, Len(pairs) - 1)))

\* json encoding of one value: ints bare, strings quoted
JsonValue(name, v) ==
  IF name = "days" THEN ToString(v) ELSE "\"" \o v \o "\""

RECURSIVE JsonItems(_)
JsonItems(pairs) ==
  IF pairs = <<>> THEN ""
  ELSE "\"" \o Head(pairs)[1] \o "\": " \o JsonValue(Head(pairs)[1], Head(pairs)[2])
       \o (IF Len(pairs) > 1 THEN ", " ELSE "") \o JsonItems(Tail(pairs))

\* json.dumps(key_data, sort_keys=True)
JsonDumps(key_data) == "{" \o JsonItems(SortKeys(key_data)) \o "}"

\* hashlib.md5(s).hexdigest(), tabulated on the key strings of the model
Md5Hexdigest ==
     ("{\"patient_id\": \"p1\", \"type\": \"insights\"}" :> "57571d5a2971808ef267dec110a0d751")
  @@ ("{\"patient_id\": \"p1\", \"type\": \"risk_assessment\"}" :> "99317a5264558f1744f262ef264dbe04")
  @@ ("{\"patient_id\": \"p1\", \"type\": \"predictions\"}" :> "5f821835dabcd00c6e50049f5cd23d0b")
  @@ ("{\"patient_id\": \"p1\", \"type\": \"health_score\"}" :> "f755bb33d3f46d012555b01bf43443a5")
  @@ ("{\"patient_id\": \"p1\", \"type\": \"patterns\"}" :> "832e1ff23cf0ecc8ead4189ab50f1563")
  @@ ("{\"patient_id\": \"p1\", \"type\": \"correlations\"}" :> "bb2cac1052d1d227f0d581f45e57739f")
  @@ ("{\"patient_id\": \"p1\", \"type\": \"forecast\"}" :> "b98df7b603c7b3e9bba6490347a9e99b")
  @@ ("{\"days\": 0, \"patient_id\": \"p1\", \"type\": \"insights\"}" :> "5081651e9a4596c270354a744736ecbd")
  @@ ("{\"days\": 7, \"patient_id\": \"p1\", \"type\": \"insights\"}" :> "2a1fbbfbd2cb20cf5f6e09abe77505a0")
  @@ ("{\"days\": 30, \"patient_id\": \"p1\", \"type\": \"insights\"}" :> "f6bb93962175cc18e53e71cce9bcbda5")
  @@ ("{\"days\": 0, \"patient_id\": \"p1\", \"type\": \"risk_assessment\"}" :> "5f721b3847648e13bbc1e99ad13a71a3")
  @@ ("{\"days\": 7, \"patient_id\": \"p1\", \"type\": \"risk_assessment\"}" :> "364184e37bf5cdc3199d57ac77a60c2c")
  @@ ("{\"days\": 30, \"patient_id\": \"p1\", \"type\": \"risk_assessment\"}" :> "37be8971bc99687348975c3450656bc4")
  @@ ("{\"days\": 0, \"patient_id\": \"p1\", \"type\": \"predictions\"}" :> "9f38654aec660bd67c43c6af7ad0864c")
  @@ ("{\"days\": 7, \"patient_id\": \"p1\", \"type\": \"predictions\"}" :> "584b1936c51ff6200b67c7bc3e63915f")
  @@ ("{\"days\": 30, \"patient_id\": \"p1\", \"type\": \"predictions\"}" :> "14e51e67c7454397e6ac3d91b6cba5d7")
  @@ ("{\"days\": 0, \"patient_id\": \"p1\", \"type\": \"health_score\"}" :> "a87a6e8e608b2979a2fec87123cd1ae9")
  @@ ("{\"days\": 7, \"patient_id\": \"p1\", \"type\": \"health_score\"}" :> "9835129e185dd93f8313449f8232c457")
  @@ ("{\"days\": 30, \"patient_id\": \"p1\", \"type\": \"health_score\"}" :> "c203a70f0a6efe7530efc66a82d5e386")
  @@ ("{\"days\": 0, \"patient_id\": \"p1\", \"type\": \"patterns\"}" :> "ff8d74adf7e62c5fc2efb990c852e54e")
  @@ ("{\"days\": 7, \"patient_id\": \"p1\", \"type\": \"patterns\"}" :> "8416bd0bdf27fa5b6479b614ba484294")
  @@ ("{\"days\": 30, \"patient_id\": \"p1\", \"type\": \"patterns\"}" :> "16f645cbe1aea23d8159dc0b899d895c")
  @@ ("{\"days\": 0, \"patient_id\": \"p1\", \"type\": \"correlations\"}" :> "40eaf4370550633e754e59d7fe54ea7c")
  @@ ("{\"days\": 7, \"patient_id\": \"p1\", \"type\": \"correlations\"}" :> "3056ccb1264102bd46bec0a6f6117474")
  @@ ("{\"days\": 30, \"patient_id\": \"p1\", \"type\": \"correlations\"}" :> "7dfdaaebf4693c22ef1a1aade14382b6")
  @@ ("{\"days\": 7, \"metric\": \"systolic\", \"patient_id\": \"p1\", \"type\": \"forecast\"}" :> "9d331723c9a63d24d9ceca34ad769d40")
  @@ ("{\"days\": 30, \"metric\": \"systolic\", \"patient_id\": \"p1\", \"type\": \"forecast\"}" :> "bf9edcc416b429e3d57e4ea46268f735")
  @@ ("{\"days\": 7, \"metric\": \"diastolic\", \"patient_id\": \"p1\", \"type\": \"forecast\"}" :> "3da797be281f5e1b0e89fbe5e1aa7744")
  @@ ("{\"days\": 30, \"metric\": \"diastolic\", \"patient_id\": \"p1\", \"type\": \"forecast\"}" :> "2b14b242a0d5e05497ed48fd3d778fdd")
  @@ ("{\"days\": 7, \"metric\": \"pulse\", \"patient_id\": \"p1\", \"type\": \"forecast\"}" :> "c3a7fa4bef85b60bdb8532a8e7908106")
  @@ ("{\"days\": 30, \"metric\": \"pulse\", \"patient_id\": \"p1\", \"type\": \"forecast\"}" :> "e0f02e26b2fd62bb72f9c92431346c34")
  @@ ("{\"days\": 7, \"metric\": \"bpm\", \"patient_id\": \"p1\", \"type\": \"forecast\"}" :> "79c851e81218d9010559d776411c19dd")
  @@ ("{\"days\": 30, \"metric\": \"bpm\", \"patient_id\": \"p1\", \"type\": \"forecast\"}" :> "d4b35651d488b2d811e5737d92209d5b")
  @@ ("{\"patient_id\": \"7\", \"type\": \"insights\"}" :> "4c90a92570af0c4517ed19f623653b8e")
  @@ ("{\"patient_id\": \"7\", \"type\": \"risk_assessment\"}" :> "17734986af1ca1b4d3635af230b01611")
  @@ ("{\"patient_id\": \"7\", \"type\": \"predictions\"}" :> "de70378c4df940929d63c0d6810d1283")
  @@ ("{\"patient_id\": \"7\", \"type\": \"health_score\"}" :> "09ae1aae639c5a020f8604993a860557")
  @@ ("{\"patient_id\": \"7\", \"type\": \"patterns\"}" :> "60e210cfcf068bff1c0e726903ebcc8b")
  @@ ("{\"patient_id\": \"7\", \"type\": \"correlations\"}" :> "4087b765889d8d58eb85ca050eef5134")
  @@ ("{\"patient_id\": \"7\", \"type\": \"forecast\"}" :> "1a981ccf4e47685f6cbddd4ed1bc1683")
  @@ ("{\"days\": 0, \"patient_id\": \"7\", \"type\": \"insights\"}" :> "cd8c1eb7504f585bb1e314f9a842f9d7")
  @@ ("{\"days\": 7, \"patient_id\": \"7\", \"type\": \"insights\"}" :> "0d73a9790aa3c61c9d96747502236fc9")
  @@ ("{\"days\": 30, \"patient_id\": \"7\", \"type\": \"insights\"}" :> "7b627f136963f7697f4f4de3b19a672f")
  @@ ("{\"days\": 0, \"patient_id\": \"7\", \"type\": \"risk_assessment\"}" :> "cf65be7ff7c1d56303c945f605ea2489")
  @@ ("{\"days\": 7, \"patient_id\": \"7\", \"type\": \"risk_assessment\"}" :> "94f2a07f7da74c3e9bcb621da71174b7")
  @@ ("{\"days\": 30, \"patient_id\": \"7\", \"type\": \"risk_assessment\"}" :> "df02229a71f79042bfb705fcfa49844a")
  @@ ("{\"days\": 0, \"patient_id\": \"7\", \"type\": \"predictions\"}" :> "e7d6a236be7d3807b1abe8a2cdb064ed")
  @@ ("{\"days\": 7, \"patient_id\": \"7\", \"type\": \"predictions\"}" :> "e492876736938882e79bd978756415f5")
  @@ ("{\"days\": 30, \"patient_id\": \"7\", \"type\": \"predictions\"}" :> "6cb70562e9514b3e8733ae01bf553e9c")
  @@ ("{\"days\": 0, \"patient_id\": \"7\", \"type\": \"health_score\"}" :> "81c273372b1cfa7cac4ae40b168defa6")
  @@ ("{\"days\": 7, \"patient_id\": \"7\", \"type\": \"health_score\"}" :> "e5b3ce573e0a4d0dd747ffd3dc069e0d")
  @@ ("{\"days\": 30, \"patient_id\": \"7\", \"type\": \"health_score\"}" :> "24453b7f7ea19375b8d7ad1e122f13c9")
  @@ ("{\"days\": 0, \"patient_id\": \"7\", \"type\": \"patterns\"}" :> "07022b9a8a344a90c496974054548008")
  @@ ("{\"days\": 7, \"patient_id\": \"7\", \"type\": \"patterns\"}" :> "4093949b440515306e7774f293aaf6fb")
  @@ ("{\"days\": 30, \"patient_id\": \"7\", \"type\": \"patterns\"}" :> "59f647ad8d3e94039e5476c5b868faa6")
  @@ ("{\"days\": 0, \"patient_id\": \"7\", \"type\": \"correlations\"}" :> "bc92bba7b3867205fe8b0d7100de7ed2")
  @@ ("{\"days\": 7, \"patient_id\": \"7\", \"type\": \"correlations\"}" :> "7a2dfa879b1ac00f64535cdc23e400c4")
  @@ ("{\"days\": 30, \"patient_id\": \"7\", \"type\": \"correlations\"}" :> "4490b60decbc621e0f17028f0fd8fb4b")
  @@ ("{\"days\": 7, \"metric\": \"systolic\", \"patient_id\": \"7\", \"type\": \"forecast\"}" :> "a26dac5ac020b23de01ab48ed8333086")
  @@ ("{\"days\": 30, \"metric\": \"systolic\", \"patient_id\": \"7\", \"type\": \"forecast\"}" :> "7b96075be18316ef12120d599409e9ff")
  @@ ("{\"days\": 7, \"metric\": \"diastolic\", \"patient_id\": \"7\", \"type\": \"forecast\"}" :> "0ecea634d3728f283948630b075cb245")
  @@ ("{\"days\": 30, \"metric\": \"diastolic\", \"patient_id\": \"7\", \"type\": \"forecast\"}" :> "4b11cf1645044374b2c47601d723c015")
  @@ ("{\"days\": 7, \"metric\": \"pulse\", \"patient_id\": \"7\", \"type\": \"forecast\"}" :> "c58f01fdb757cfc90f55f68503ce5eb6")
  @@ ("{\"days\": 30, \"metric\": \"pulse\", \"patient_id\": \"7\", \"type\": \"forecast\"}" :> "42cd5d2ac129dd6c455873ace4fab7f8")
  @@ ("{\"days\": 7, \"metric\": \"bpm\", \"patient_id\": \"7\", \"type\": \"forecast\"}" :> "b07e69a9012054d90d3ea186cb24381f")
  @@ ("{\"days\": 30, \"metric\": \"bpm\", \"patient_id\": \"7\", \"type\": \"forecast\"}" :> "a9b4cf6170eba28e6bd0127d6604529f")

\* _make_key; kwargs is the sequence of <<name, value>> pairs in call order
MakeKeyOf(patient_id, analysis_type, kwargs) ==
  Md5Hexdigest[JsonDumps(<<<<"patient_id", patient_id>>, <<"type", analysis_type>>>> \o kwargs)]

\* the parameter lists the callers of the model pass to the cache
AllKwargs ==
  {<<>>} \cup {<<<<"days", d>>>> : d \in {0, 7, 30}}
  \cup {<<<<"metric", m>>, <<"days", d>>>> : m \in {"systolic", "diastolic", "bpm"}, d \in {7, 30}}
  \cup {<<<<"days", d>>, <<"metric", m>>>> : m \in {"systolic", "diastolic", "bpm"}, d \in {7, 30}}

KeyArgs ==
  {a \in Patients \X AnalysisTypes \X AllKwargs :
     (Len(a[3]) = 2) <=> (a[2] = "forecast" /\ a[3] # <<>>)}

\* _make_key tabulated once over the calls of the model (@@ makes the table
\* an explicit function)
KeyTable == [a \in KeyArgs |-> MakeKeyOf(a[1], a[2], a[3])] @@ [a \in {} |-> ""]

MakeKey(patient_id, analysis_type, kwargs) ==
  KeyTable[<<patient_id, analysis_type, kwargs>>]

----------------------------------------------------------------------------
(* cachetools.TTLCache, as AnalysisCache uses it *)

\* TTLCache.expire(time): drop every item whose time-to-live has passed
TTLExpire(items, t) == SelectSeq(items, LAMBDA e : t < e.expires)

\* a cache whose items live until their expiry time inclusive
TTLContainsInclusive(items, key, t) ==
  \E i \in 1..Len(items) : items[i].key = key /\ t <= items[i].expires

\* TTLCache.__contains__
TTLContains(items, key, t) ==
  \E i \in 1..Len(items) : items[i].key = key /\ t < items[i].expires

TTLIndex(items, key) == CHOOSE i \in 1..Len(items) : items[i].key = key

TTLRemove(items, key) == SelectSeq(items, LAMBDA e : e.key # key)

\* Cache.get(key): the value of an unexpired item, else None
TTLGetValue(items, key, t) ==
  IF TTLContains(items, key, t) THEN items[TTLIndex(items, key)].value ELSE None

\* a cache whose get leaves the order of use alone (first in, first out)
TTLAfterGetNoTouch(items, key, t) == items

\* the items after Cache.get(key): __getitem__ moves the link of an unexpired
\* item to the most-recently-used end; an expired or missing key changes nothing
TTLAfterGet(items, key, t) ==
  IF TTLContains(items, key, t)
  THEN TTLRemove(items, key) \o <<items[TTLIndex(items, key)]>>
  ELSE items

\* TTLCache.popitem(): remove the least recently used unexpired item
TTLPopItem(items, t) == Tail(TTLExpire(items, t))

\* a cache whose set leaves the item of a key it already holds as it is
TTLSetItemFirstWins(items, key, value, t, maxsize, ttl) ==
  LET live == TTLExpire(items, t)
      isNew == \A i \in 1..Len(live) : live[i].key # key
      room == IF isNew /\ Len(live) + 1 > maxsize THEN TTLPopItem(live, t) ELSE live
  IN  IF isNew THEN room \o <<[key |-> key, value |-> value, expires |-> t + ttl]>>
      ELSE live

\* TTLCache.__setitem__(key, value): expire, make room for a new key, store,
\* move to the most-recently-used end and restart the time-to-live
TTLSetItem(items, key, value, t, maxsize, ttl) ==
  LET live == TTLExpire(items, t)
      isNew == \A i \in 1..Len(live) : live[i].key # key
      room == IF isNew /\ Len(live) + 1 > maxsize THEN TTLPopItem(live, t) ELSE live
  IN  TTLRemove(room, key) \o <<[key |-> key, value |-> value, expires |-> t + ttl]>>

\* len(TTLCache): the number of unexpired items
TTLLen(items, t) == Len(TTLExpire(items, t))

\* key in str(cache_key): substring test
Contains(hay, needle) ==
  \E i \in 1..(Len(hay) - Len(needle) + 1) :
     SubSeq(hay, i, i + Len(needle) - 1) = needle

----------------------------------------------------------------------------
(* AnalysisCache (class methods over the class attribute _cache) *)

NewCache == [created |-> TRUE, items |-> <<>>]

\* AnalysisCache.get: the returned value
CacheGetValue(c, patient_id, analysis_type, kwargs, t) ==
  IF ~c.created THEN None
  ELSE TTLGetValue(c.items, MakeKey(patient_id, analysis_type, kwargs), t)

\* AnalysisCache.get: the cache afterwards
CacheAfterGet(c, patient_id, analysis_type, kwargs, t) ==
  IF ~c.created THEN c
  ELSE [c EXCEPT !.items = TTLAfterGet(c.items, MakeKey(patient_id, analysis_type, kwargs), t)]

\* AnalysisCache.set
CacheAfterSet(c, patient_id, analysis_type, value, kwargs, t) ==
  LET cc == IF ~c.created THEN NewCache ELSE c
  IN  [cc EXCEPT !.items = TTLSetItem(cc.items, MakeKey(patient_id, analysis_type, kwargs),
                                      value, t, cache_max_size, cache_ttl)]

\* AnalysisCache.invalidate: pop every (unexpired) key of which the patient id
\* is a substring
CacheAfterInvalidate(c, patient_id, t) ==
  IF ~c.created THEN c
  ELSE [c EXCEPT !.items =
          SelectSeq(c.items, LAMBDA e :
             ~(t < e.expires /\ Contains(StrChars[e.key], StrChars[patient_id])))]

\* AnalysisCache.stats
CacheStats(c, t) ==
  IF ~c.created THEN [size |-> 0, maxsize |-> 0]
  ELSE [size |-> TTLLen(c.items, t), maxsize |-> cache_max_size, ttl |-> cache_ttl]

----------------------------------------------------------------------------
(* History of the cache as its callers see it: which keys were set, when,  *)
(* and in which order they were last used (set, or returned by a get).     *)

KeysOf(items) == {items[i].key : i \in 1..Len(items)}

UsedPrune(u, c) == SelectSeq(u, LAMBDA h : h.key \in KeysOf(c.items))

UsedTouch(u, key) ==
  SelectSeq(u, LAMBDA h : h.key # key) \o SelectSeq(u, LAMBDA h : h.key = key)

\* a set of key at time t: stored is the value set, response what the caller
\* that computed it returned, data the records of the patient at that time
UsedSet(u, key, t, stored, response, data) ==
  SelectSeq(u, LAMBDA h : h.key # key)
  \o <<[key |-> key, setAt |-> t, stored |-> stored, response |-> response, data |-> data]>>

\* the history entries of key (at most one)
UsedOf(u, key) == SelectSeq(u, LAMBDA h : h.key = key)

\* key was set, was neither invalidated nor evicted since, and outlived its
\* time-to-live
Stale(u, key, t) == \E i \in 1..Len(u) : u[i].key = key /\ t >= u[i].setAt + cache_ttl

\* the unexpired keys of cache c that cache c2 no longer holds
Evicted(c, c2, t) == KeysOf(TTLExpire(c.items, t)) \ KeysOf(c2.items)

NoKwargs == <<>>

\* What the last operation did: hit when it answered from the cache, result
\* what it returned, fetches the Database queries it made, cached what its
\* cache lookup returned, stale whether the key it looked up had outlived its
\* time-to-live, evicted the unexpired keys it removed, fault whether one of
\* its Database queries raised, range the time_range of the request
Outcome(op, patient_id, analysis_type, kwargs, hit, result, fetches) ==
  [op |-> op, patient_id |-> patient_id, type |-> analysis_type, kwargs |-> kwargs,
   hit |-> hit, result |-> result, fetches |-> fetches,
   cached |-> None, stale |-> FALSE, evicted |-> {}, fault |-> FALSE,
   range |-> None]

NoOutcome == Outcome("none", "", "", NoKwargs, FALSE, None, <<>>)

----------------------------------------------------------------------------
(* SpecCache: the AnalysisCache API called directly *)

\* the analysis kinds and parameter lists the direct calls draw from
DirectTypes == {"forecast"}

DirectKwargs(analysis_type) ==
  {<<<<"metric", "systolic">>, <<"days", 30>>>>,
   <<<<"days", 30>>, <<"metric", "systolic">>>>,
   <<<<"metric", "diastolic">>, <<"days", 30>>>>}

\* the values the direct calls store: the result computed for a window
ValueFor(days) == [tag |-> "artifact", days |-> days]

DirectValues == {ValueFor(30)}

\* the window lengths the decorated function is called with
DecoratedDays == {7, 30}

Get(patient_id, analysis_type, kwargs) ==
  LET v == CacheGetValue(cache, patient_id, analysis_type, kwargs, now)
      c == CacheAfterGet(cache, patient_id, analysis_type, kwargs, now)
  IN  /\ cache' = c
      /\ used' = IF v # None
                 THEN UsedTouch(used, MakeKey(patient_id, analysis_type, kwargs))
                 ELSE used
      /\ last' = [Outcome("get", patient_id, analysis_type, kwargs, v # None, v, <<>>)
                  EXCEPT !.cached = v,
                         !.stale = Stale(used, MakeKey(patient_id, analysis_type, kwargs), now)]
      /\ UNCHANGED <<now, db, client, nreq, inp, run1, run2, calls>>

Set(patient_id, analysis_type, value, kwargs) ==
  LET c == CacheAfterSet(cache, patient_id, analysis_type, value, kwargs, now)
  IN  /\ cache' = c
      /\ used' = UsedPrune(UsedSet(used, MakeKey(patient_id, analysis_type, kwargs), now,
                                   value, value, db[patient_id]), c)
      /\ last' = [Outcome("set", patient_id, analysis_type, kwargs, FALSE, value, <<>>)
                  EXCEPT !.evicted = Evicted(cache, c, now)]
      /\ UNCHANGED <<now, db, client, nreq, inp, run1, run2, calls>>

\* AnalysisCache.invalidate, and the invalidate-cache endpoint that calls it
Invalidate(patient_id) ==
  LET c == CacheAfterInvalidate(cache, patient_id, now)
  IN  /\ cache' = c
      /\ used' = UsedPrune(used, c)
      /\ last' = [Outcome("invalidate", patient_id, "", NoKwargs, FALSE, None, <<>>)
                  EXCEPT !.evicted = Evicted(cache, c, now)]
      /\ UNCHANGED <<now, db, client, nreq, inp, run1, run2, calls>>

\* a function wrapped by cached_analysis(analysis_type), called with a window
\* length: the wrapper looks up and stores under (patient_id, analysis_type)
\* only; the wrapped function computes the result for the window
CachedAnalysisCall(patient_id, analysis_type, days) ==
  LET cached == CacheGetValue(cache, patient_id, analysis_type, NoKwargs, now)
      c1 == CacheAfterGet(cache, patient_id, analysis_type, NoKwargs, now)
      result == ValueFor(days)
      c2 == CacheAfterSet(c1, patient_id, analysis_type, result, NoKwargs, now)
      key == MakeKey(patient_id, analysis_type, NoKwargs)
  IN  IF cached # None
      THEN /\ cache' = c1
           /\ used' = UsedTouch(used, key)
           /\ last' = [Outcome("cached_analysis", patient_id, analysis_type,
                               <<<<"days", days>>>>, TRUE, cached, <<>>)
                       EXCEPT !.cached = cached]
           /\ UNCHANGED <<now, db, client, nreq, inp, run1, run2, calls>>
      ELSE /\ cache' = c2
           /\ used' = UsedPrune(UsedSet(used, key, now, result, result, db[patient_id]), c2)
           /\ last' = [Outcome("cached_analysis", patient_id, analysis_type,
                               <<<<"days", days>>>>, FALSE, result, <<>>)
                       EXCEPT !.stale = Stale(used, key, now),
                              !.evicted = Evicted(cache, c2, now)]
           /\ UNCHANGED <<now, db, client, nreq, inp, run1, run2, calls>>

\* time passes
Tick ==
  /\ now + TickSeconds <= MaxNow
  /\ now' = now + TickSeconds
  /\ last' = NoOutcome
  /\ UNCHANGED <<cache, used, db, client, nreq, inp, run1, run2, calls>>

NoInput == [tag |-> "None"]

NoClient == [patient_id |-> "", type |-> ""]

InitCache ==
  /\ cache = [created |-> FALSE, items |-> <<>>]
  /\ now = 0
  /\ used = <<>>
  /\ last = NoOutcome
  /\ db = [p \in Patients |-> 0]
  /\ client = NoClient
  /\ nreq = 0
  /\ inp = NoInput
  /\ run1 = None
  /\ run2 = None
  /\ calls = <<>>

NextCache ==
  \/ \E p \in Patients, t \in DirectTypes : \E kw \in DirectKwargs(t) : Get(p, t, kw)
  \/ \E p \in Patients, t \in DirectTypes, v \in DirectValues :
       \E kw \in DirectKwargs(t) : Set(p, t, v, kw)
  \/ \E p \in Patients : Invalidate(p)
  \/ \E p \in Patients, d \in DecoratedDays : CachedAnalysisCall(p, "insights", d)
  \/ Tick

SpecCache == InitCache /\ [][NextCache]_vars

----------------------------------------------------------------------------
(* Records of the external store (app/models/requests.py) and what the     *)
(* Database queries return for them                                        *)

\* absent string field
NoneStr == "None"

\* A reading: systolic, diastolic, pulse (NoneInt when absent), day (the
\* calendar day of measurement_date), time_of_day and position (NoneStr when
\* absent). Readings are returned newest first.
Reading(sys, dia, pulse, day, tod, pos) ==
  [systolic |-> sys, diastolic |-> dia, pulse |-> pulse, day |-> day,
   time_of_day |-> tod, position |-> pos]

\* A medication: adherence_rate is NoneInt when absent
Medication(name, active, rate) ==
  [name |-> name, active |-> active, adherence_rate |-> rate]

\* A lifestyle entry; sleep_duration is in tenths of an hour; numeric fields
\* are NoneInt and categorical fields NoneStr when absent
Lifestyle(day, activity, salt, sleep, stress) ==
  [entry_day |-> day, physical_activity |-> activity, salt_intake |-> salt,
   sleep_duration |-> sleep, stress_level |-> stress]

Sum(f) == LET RECURSIVE S(_)
              S(i) == IF i = 0 THEN 0 ELSE f[i] + S(i - 1)
          IN  S(Len(f))

Field(seq, name) == [i \in 1..Len(seq) |-> seq[i][name]]

Take(seq, n) == SubSeq(seq, 1, IF Len(seq) < n THEN Len(seq) ELSE n)

MaxOf(f) == CHOOSE m \in {f[i] : i \in 1..Len(f)} : \A i \in 1..Len(f) : f[i] <= m

MinOf(f) == CHOOSE m \in {f[i] : i \in 1..Len(f)} : \A i \in 1..Len(f) : m <= f[i]

\* format(num / den, ".0f") for num >= 0, den > 0: nearest integer, ties to even
RoundHalfEven(num, den) ==
  LET q == num \div den
      r == num % den
  IN  IF 2 * r < den THEN q
      ELSE IF 2 * r > den THEN q + 1
      ELSE IF q % 2 = 0 THEN q ELSE q + 1

----------------------------------------------------------------------------
(* Errors (app/errors/handlers.py) *)

AnalysisError(code, message, status_code, details) ==
  [tag |-> "error", code |-> code, message |-> message,
   status_code |-> status_code, details |-> details]

PatientNotFoundError(patient_id) ==
  AnalysisError("PATIENT_NOT_FOUND", <<"Patient with ID {} not found", patient_id>>,
                404, [patient_id |-> patient_id])

InsufficientDataError(message, details) ==
  AnalysisError("INSUFFICIENT_DATA", message, 400, details)

----------------------------------------------------------------------------
(* Insight generation (app/services/insights.py) *)

\* an insight whose message carries the time of the computation
InsightStamped(type, title, message, priority, timestamp, recommendations) ==
  [type |-> type, title |-> title, message |-> message \o <<timestamp>>,
   priority |-> priority, timestamp |-> timestamp, recommendations |-> recommendations]

\* An insight before its id is drawn; message is the format string with its
\* arguments, recommendations the list of strings (<<>> when None)
Insight(type, title, message, priority, timestamp, recommendations) ==
  [type |-> type, title |-> title, message |-> message, priority |-> priority,
   timestamp |-> timestamp, recommendations |-> recommendations]

IsHigh(r) == r.systolic >= 140 \/ r.diastolic >= 90

IsCritical(r) == r.systolic >= 180 \/ r.diastolic >= 120

IsNormal(r) == r.systolic < 130 /\ r.diastolic < 85

\* count > n * 0.5 in floating point, for counts up to 14
MoreThanHalf(count, n) == 2 * count > n

\* count >= n * 0.7 in floating point: n * 0.7 is the exact 7.0 for n = 10
\* and is within one unit in the last place of 7n/10, which is no integer,
\* for every other n of 1..14
AtLeastSeventyPercent(count, n) == 10 * count >= 7 * n

AnalyzeBpPatterns(readings, timestamp) ==
  IF readings = <<>> THEN <<>>
  ELSE
  LET recent == Take(readings, 14)
      older == IF Len(readings) > 14
               THEN SubSeq(readings, 15, IF Len(readings) < 28 THEN Len(readings) ELSE 28)
               ELSE <<>>
      nR == Len(recent)
      nO == Len(older)
      sumR == Sum(Field(recent, "systolic"))
      sumO == Sum(Field(older, "systolic"))
      \* avg_systolic < old_avg_sys - 5 and avg_systolic > old_avg_sys + 5
      improving == nO > 0 /\ sumR * nO < (sumO - 5 * nO) * nR
      trendingUp == nO > 0 /\ sumR * nO > (sumO + 5 * nO) * nR
      high_count == Len(SelectSeq(recent, IsHigh))
      critical_count == Len(SelectSeq(recent, IsCritical))
      normal_count == Len(SelectSeq(recent, IsNormal))
      systolic_values == Field(recent, "systolic")
  IN  (IF improving
       THEN <<Insight("success", "Blood Pressure Improving",
                <<"Your average systolic BP has decreased by {:.0f} mmHg compared to the previous period.",
                  RoundHalfEven(sumO * nR - sumR * nO, nO * nR)>>,
                1, timestamp,
                <<"Keep up your current routine", "Continue monitoring regularly">>)>>
       ELSE IF trendingUp
       THEN <<Insight("warning", "Blood Pressure Trending Up",
                <<"Your average systolic BP has increased by {:.0f} mmHg. Consider reviewing your lifestyle factors.",
                  RoundHalfEven(sumR * nO - sumO * nR, nO * nR)>>,
                2, timestamp,
                <<"Review your sodium intake", "Ensure medication compliance",
                  "Consider scheduling a check-up">>)>>
       ELSE <<>>)
      \o
      (IF MoreThanHalf(high_count, nR)
       THEN <<Insight("danger", "Consistently Elevated Readings",
                <<"{} out of {} recent readings are elevated. Please consult your healthcare provider.",
                  high_count, nR>>,
                1, timestamp,
                <<"Contact your doctor", "Review your medication", "Monitor more frequently">>)>>
       ELSE <<>>)
      \o
      (IF critical_count > 0
       THEN <<Insight("danger", "Critical Reading Detected",
                <<"You had {} reading(s) in the critical range. Seek medical attention if symptoms occur.",
                  critical_count>>,
                1, timestamp,
                <<"Seek immediate medical attention if experiencing symptoms",
                  "Contact your healthcare provider today", "Do not skip medications">>)>>
       ELSE <<>>)
      \o
      (IF AtLeastSeventyPercent(normal_count, nR)
       THEN <<Insight("success", "Excellent BP Control",
                <<"{} out of {} readings are within normal range. Great job!", normal_count, nR>>,
                2, timestamp,
                <<"Maintain your current lifestyle", "Continue regular monitoring">>)>>
       ELSE <<>>)
      \o
      (IF MaxOf(systolic_values) - MinOf(systolic_values) > 30
       THEN <<Insight("warning", "High BP Variability",
                <<"Your blood pressure readings show significant variability. Consistent readings are important for accurate assessment.">>,
                3, timestamp,
                <<"Take readings at the same time daily", "Rest for 5 minutes before measuring",
                  "Use the same arm each time">>)>>
       ELSE <<>>)

\* m.get("adherence_rate") or default: None and 0 both give the default
RateOr(m, default) ==
  IF m.adherence_rate = NoneInt \/ m.adherence_rate = 0 THEN default ELSE m.adherence_rate

\* ", ".join of the names, as the list of the names
JoinNames(meds) == Field(meds, "name")

AnalyzeMedicationAdherence(medications, timestamp) ==
  LET active_meds == SelectSeq(medications, LAMBDA m : m.active)
      low_adherence_meds == SelectSeq(active_meds, LAMBDA m : RateOr(m, 100) < 85)
      high_adherence_meds == SelectSeq(active_meds, LAMBDA m : RateOr(m, 0) >= 95)
  IN  IF active_meds = <<>> THEN <<>>
      ELSE
      (IF low_adherence_meds # <<>>
       THEN <<Insight("warning", "Medication Adherence Alert",
                <<"Your adherence to {} could be improved. Consistent medication use is key to BP control.",
                  JoinNames(Take(low_adherence_meds, 2))>>,
                2, timestamp,
                <<"Set daily medication reminders", "Use a pill organizer",
                  "Talk to your doctor if side effects are an issue">>)>>
       ELSE <<>>)
      \o
      (IF Len(high_adherence_meds) = Len(active_meds) /\ active_meds # <<>>
       THEN <<Insight("success", "Excellent Medication Adherence",
                <<"You're taking your medications consistently. This significantly helps control your blood pressure.">>,
                3, timestamp, <<>>)>>
       ELSE <<>>)

AnalyzeLifestyle(lifestyle, timestamp) ==
  IF lifestyle = <<>> THEN <<>>
  ELSE
  LET recent == lifestyle[1]
      \* recent.get("physical_activity") or 0
      activity == IF recent.physical_activity = NoneInt THEN 0 ELSE recent.physical_activity
      \* recent.get("sleep_duration") or 7, in tenths of an hour
      sleep == IF recent.sleep_duration = NoneInt \/ recent.sleep_duration = 0
               THEN 70 ELSE recent.sleep_duration
  IN  (IF activity >= 30
       THEN <<Insight("success", "Great Exercise Habits",
                <<"You logged {} minutes of activity. Regular exercise helps lower BP naturally.", activity>>,
                4, timestamp, <<>>)>>
       ELSE IF activity < 15
       THEN <<Insight("info", "Increase Physical Activity",
                <<"Consider adding more physical activity to your routine. Even a 30-minute walk can help.">>,
                3, timestamp,
                <<"Aim for 30 minutes of moderate exercise daily", "Start with walking",
                  "Take the stairs when possible">>)>>
       ELSE <<>>)
      \o
      (IF recent.salt_intake = "high"
       THEN <<Insight("warning", "High Sodium Intake",
                <<"High sodium intake can elevate blood pressure. Try to reduce salt in your diet.">>,
                2, timestamp,
                <<"Avoid processed foods", "Don't add salt at the table", "Read nutrition labels">>)>>
       ELSE <<>>)
      \o
      (IF sleep < 60
       THEN <<Insight("warning", "Insufficient Sleep",
                <<"You're getting {:.1f} hours of sleep. Poor sleep can affect blood pressure.", sleep>>,
                3, timestamp,
                <<"Aim for 7-9 hours of sleep", "Maintain a consistent sleep schedule",
                  "Limit screen time before bed">>)>>
       ELSE <<>>)
      \o
      (IF recent.stress_level \in {"high", "severe"}
       THEN <<Insight("warning", "High Stress Levels",
                <<"Chronic stress can elevate blood pressure. Consider stress management techniques.">>,
                3, timestamp,
                <<"Practice deep breathing exercises", "Try meditation or yoga",
                  "Take regular breaks during work">>)>>
       ELSE <<>>)

AnalyzeTimePatterns(readings, timestamp) ==
  IF Len(readings) < 7 THEN <<>>
  ELSE
  LET morning == SelectSeq(readings, LAMBDA r : r.time_of_day = "morning")
      evening == SelectSeq(readings, LAMBDA r : r.time_of_day \in {"evening", "night"})
      nM == Len(morning)
      nE == Len(evening)
      sumM == Sum(Field(morning, "systolic"))
      sumE == Sum(Field(evening, "systolic"))
  IN  IF nM >= 3 /\ nE >= 3
      THEN IF sumM * nE - sumE * nM > 15 * nM * nE
           THEN <<Insight("info", "Morning Blood Pressure Surge",
                    <<"Your morning readings average {:.0f} mmHg vs {:.0f} mmHg in the evening. Morning surges are common but worth monitoring.",
                      RoundHalfEven(sumM, nM), RoundHalfEven(sumE, nE)>>,
                    3, timestamp,
                    <<"Take morning medications before getting out of bed",
                      "Rise slowly in the morning", "Discuss with your doctor if pattern persists">>)>>
           ELSE IF sumE * nM - sumM * nE > 15 * nM * nE
           THEN <<Insight("warning", "Elevated Evening Readings",
                    <<"Your blood pressure tends to spike in the evening hours ({:.0f} mmHg vs {:.0f} mmHg in the morning).",
                      RoundHalfEven(sumE, nE), RoundHalfEven(sumM, nM)>>,
                    2, timestamp,
                    <<"Reduce salt intake after 6 PM", "Practice relaxation techniques before bed",
                      "Avoid caffeine in the afternoon">>)>>
           ELSE <<>>
      ELSE <<>>

\* the insights left in the order in which they were found
KeepFound(seq) == seq

\* list.sort(key=priority): stable insertion by priority
RECURSIVE InsertByPriority(_, _)
InsertByPriority(x, sorted) ==
  IF sorted = <<>> THEN <<x>>
  ELSE IF x.priority < Head(sorted).priority THEN <<x>> \o sorted
  ELSE <<Head(sorted)>> \o InsertByPriority(x, Tail(sorted))

RECURSIVE SortByPriority(_)
SortByPriority(seq) ==
  IF seq = <<>> THEN <<>>
  ELSE InsertByPriority(seq[Len(seq)], SortByPriority(SubSeq(seq, 1, Len(seq) - 1)))

\* id=str(uuid.uuid4()): the n-th identifier the generator hands out in a
\* computation whose generator state is seed
Uuid4(seed, n) == <<seed, n>>

WithIds(insights, seed) ==
  IF insights = <<>> THEN <<>>
  ELSE [i \in 1..Len(insights) |-> [id |-> Uuid4(seed, i)] @@ insights[i]]

----------------------------------------------------------------------------
(* Risk assessment (app/services/risk_assessment.py) *)

\* rec.get(field) or default, for a numeric field: a missing key, None and 0
\* give the default
NumOr(rec, field, default) ==
  IF field \in DOMAIN rec
  THEN (IF rec[field] = NoneInt \/ rec[field] = 0 THEN default ELSE rec[field])
  ELSE default

\* rec.get(field), for a string field
StrOf(rec, field) == IF field \in DOMAIN rec THEN rec[field] ELSE NoneStr

\* word in medical_history.lower(), over the lower-cased characters of the
\* medical histories of the model and of the words looked for in them
Mentions(history, word) ==
  LET lower ==
      "Hypertension" :> <<"h", "y", "p", "e", "r", "t", "e", "n", "s", "i", "o", "n">> @@
      "Type 2 Diabetes" :> <<"t", "y", "p", "e", " ", "2", " ", "d", "i", "a", "b", "e", "t", "e", "s">> @@
      "Diabetes, chronic kidney disease, heart failure" :> <<"d", "i", "a", "b", "e", "t", "e", "s", ",", " ", "c", "h", "r", "o", "n", "i", "c", " ", "k", "i", "d", "n", "e", "y", " ", "d", "i", "s", "e", "a", "s", "e", ",", " ", "h", "e", "a", "r", "t", " ", "f", "a", "i", "l", "u", "r", "e">> @@
      "" :> <<>> @@
      "diabetes" :> <<"d", "i", "a", "b", "e", "t", "e", "s">> @@
      "kidney" :> <<"k", "i", "d", "n", "e", "y">> @@
      "renal" :> <<"r", "e", "n", "a", "l">> @@
      "heart" :> <<"h", "e", "a", "r", "t">> @@
      "cardiac" :> <<"c", "a", "r", "d", "i", "a", "c">>
  IN  Contains(lower[history], lower[word])

\* The points calculate_risk_assessment adds to risk_score in each of its
\* four sections: for the blood pressure of the latest 14 readings, for the
\* adherence to the active medications (with the impact of the factor the
\* section appends, NoneStr when it appends none), for the most recent
\* lifestyle entry (sleep in tenths of an hour) and for the age and medical
\* history
RiskCategories(D) ==
  LET recent == Take(D.readings, 14)
      n == Len(recent)
      sumS == Sum(Field(recent, "systolic"))
      sumD == Sum(Field(recent, "diastolic"))
      high_count == Len(SelectSeq(recent, IsHigh))
      critical_count == Len(SelectSeq(recent, IsCritical))
      variability == MaxOf(Field(recent, "systolic")) - MinOf(Field(recent, "systolic"))
      \* (high_count / n) * 100 against 70, 40 and 20 is exact for n <= 14
      bp ==
        IF D.readings = <<>> THEN 10
        ELSE (IF critical_count > 0 THEN 25 ELSE 0)
             + (IF 100 * high_count >= 70 * n THEN 20
                ELSE IF 100 * high_count >= 40 * n THEN 12
                ELSE IF 100 * high_count >= 20 * n THEN 5
                ELSE 0)
             + (IF sumS >= 160 * n \/ sumD >= 100 * n THEN 10
                ELSE IF sumS >= 140 * n \/ sumD >= 90 * n THEN 6
                ELSE IF sumS >= 130 * n \/ sumD >= 85 * n THEN 3
                ELSE 0)
             + (IF variability > 40 THEN 8 ELSE IF variability > 25 THEN 4 ELSE 0)
      active_meds == SelectSeq(D.medications, LAMBDA m : m.active)
      k == Len(active_meds)
      total == Sum([i \in 1..k |-> RateOr(active_meds[i], 100)])
      medication ==
        IF k = 0 THEN 0
        ELSE IF total < 70 * k THEN 20
        ELSE IF total < 85 * k THEN 12
        ELSE 0
      medication_impact ==
        IF k = 0 THEN NoneStr
        ELSE IF total < 70 * k THEN "high"
        ELSE IF total < 85 * k THEN "moderate"
        ELSE IF total >= 95 * k THEN "low"
        ELSE NoneStr
      entry == D.lifestyle[1]
      salt == StrOf(entry, "salt_intake")
      activity == NumOr(entry, "physical_activity", 0)
      stress == StrOf(entry, "stress_level")
      sleep == NumOr(entry, "sleep_duration", 70)
      lifestyle ==
        IF D.lifestyle = <<>> THEN 0
        ELSE (IF salt = "high" THEN 8 ELSE IF salt = "moderate" THEN 3 ELSE 0)
             + (IF activity < 15 THEN 8 ELSE IF activity < 30 THEN 4 ELSE 0)
             + (IF stress = "severe" THEN 8 ELSE IF stress = "high" THEN 5 ELSE 0)
             + (IF sleep < 50 THEN 6 ELSE IF sleep < 60 THEN 3 ELSE 0)
             + (IF NumOr(entry, "alcohol_consumption", 0) > 2 THEN 5 ELSE 0)
             + (IF StrOf(entry, "smoking_status") = "current" THEN 10 ELSE 0)
      age == NumOr(D.patient, "age", 0)
      history == D.patient.medical_history
      demographics ==
        (IF age >= 65 THEN 10 ELSE IF age >= 55 THEN 6 ELSE IF age >= 45 THEN 3 ELSE 0)
        + (IF Mentions(history, "diabetes") THEN 10 ELSE 0)
        + (IF Mentions(history, "kidney") \/ Mentions(history, "renal") THEN 10 ELSE 0)
        + (IF Mentions(history, "heart") \/ Mentions(history, "cardiac") THEN 8 ELSE 0)
  IN  [bp |-> bp, medication |-> medication, medication_impact |-> medication_impact,
       lifestyle |-> lifestyle, demographics |-> demographics]

\* the risk score: the points of the four sections, capped at 100
RiskScore(D) ==
  LET points == RiskCategories(D)
      risk_score == points.bp + points.medication + points.lifestyle + points.demographics
  IN  IF risk_score > 100 THEN 100 ELSE risk_score

\* a labelling whose categories start above their boundaries
OverallRiskExclusive(risk_score) ==
  IF risk_score > 70 THEN "critical"
  ELSE IF risk_score > 50 THEN "high"
  ELSE IF risk_score > 30 THEN "moderate"
  ELSE "low"

\* the overall risk level of a score
OverallRisk(risk_score) ==
  IF risk_score >= 70 THEN "critical"
  ELSE IF risk_score >= 50 THEN "high"
  ELSE IF risk_score >= 30 THEN "moderate"
  ELSE "low"

----------------------------------------------------------------------------
(* Health score (app/services/health_score.py) *)

\* the categories of calculate_health_score with their scores and statuses,
\* in the order they are appended; days is the length of the window. The
\* quotients the scores are rounded from are exact in double precision for
\* up to 14 readings and the windows of the model, so round() is applied to
\* the exact quotient.
HealthCategories(D, days) ==
  LET Clamp(score) == IF score < 0 THEN 0 ELSE IF score > 100 THEN 100 ELSE score
      Capped(score) == IF score > 100 THEN 100 ELSE score
      \* _score_to_status
      Status(score) ==
        IF score >= 85 THEN "excellent"
        ELSE IF score >= 70 THEN "good"
        ELSE IF score >= 50 THEN "fair"
        ELSE "poor"
      Category(name, score) == [name |-> name, score |-> score, status |-> Status(score)]
      \* _calculate_bp_score
      recent == Take(D.readings, 14)
      total == Len(recent)
      elevated == Len(SelectSeq(recent, LAMBDA r :
                        ~IsHigh(r) /\ (r.systolic >= 130 \/ r.diastolic >= 85)))
      high == Len(SelectSeq(recent, LAMBDA r : IsHigh(r) /\ ~IsCritical(r)))
      normal == Len(SelectSeq(recent, LAMBDA r :
                      ~IsHigh(r) /\ ~(r.systolic >= 130 \/ r.diastolic >= 85)))
      variability == MaxOf(Field(recent, "systolic")) - MinOf(Field(recent, "systolic"))
      bonus == IF variability < 15 THEN 5 ELSE IF variability > 30 THEN 0 - 10 ELSE 0
      bp_score ==
        IF D.readings = <<>> THEN 50
        ELSE Clamp(RoundHalfEven(100 * normal + 60 * elevated + 30 * high + bonus * total,
                                 total))
      \* _calculate_medication_score
      active_meds == SelectSeq(D.medications, LAMBDA m : m.active)
      rated == SelectSeq(active_meds, LAMBDA m : m.adherence_rate # NoneInt)
      med_score ==
        IF active_meds = <<>> THEN 85
        ELSE IF rated = <<>> THEN 75
        ELSE Clamp(RoundHalfEven(Sum(Field(rated, "adherence_rate")), Len(rated)))
      \* _calculate_lifestyle_score
      week == Take(D.lifestyle, 7)
      LifestyleDay(entry) ==
        LET activity == NumOr(entry, "physical_activity", 0)
            diet == StrOf(entry, "diet_quality")
            salt == StrOf(entry, "salt_intake")
            stress == StrOf(entry, "stress_level")
            water == NumOr(entry, "water_intake", 0)
        IN  Capped(50
              + (IF activity >= 30 THEN 20 ELSE IF activity >= 15 THEN 10
                 ELSE IF activity > 0 THEN 5 ELSE 0)
              + (IF diet = "healthy" THEN 15 ELSE IF diet = "moderate" THEN 8 ELSE 0)
              + (IF salt = "low" THEN 10 ELSE IF salt = "moderate" THEN 5
                 ELSE IF salt = "high" THEN 0 - 5 ELSE 0)
              + (IF stress = "low" THEN 10 ELSE IF stress = "moderate" THEN 5
                 ELSE IF stress \in {"high", "severe"} THEN 0 - 5 ELSE 0)
              + (IF water >= 8 THEN 5 ELSE IF water >= 6 THEN 3 ELSE 0))
      lifestyle_score ==
        IF D.lifestyle = <<>> THEN 50
        ELSE RoundHalfEven(Sum([i \in 1..Len(week) |-> LifestyleDay(week[i])]), Len(week))
      \* _calculate_monitoring_score
      times == SelectSeq(Field(D.readings, "time_of_day"), LAMBDA t : t # NoneStr)
      actual == Len(D.readings)
      most_common ==
        MaxOf([i \in 1..Len(times) |-> Len(SelectSeq(times, LAMBDA t : t = times[i]))])
      monitoring_score ==
        IF D.readings = <<>> THEN 0
        ELSE IF times = <<>> THEN Clamp(RoundHalfEven(100 * actual, days))
        ELSE Clamp(RoundHalfEven(100 * actual * Len(times) + 10 * most_common * days,
                                 days * Len(times)))
      \* _calculate_sleep_score, durations in tenths of an hour
      SleepDay(entry) ==
        LET duration == NumOr(entry, "sleep_duration", 70)
            quality == StrOf(entry, "sleep_quality")
        IN  Capped(50
              + (IF 70 <= duration /\ duration <= 90 THEN 30
                 ELSE IF (60 <= duration /\ duration < 70) \/ (90 < duration /\ duration <= 100)
                 THEN 20
                 ELSE IF 50 <= duration /\ duration < 60 THEN 10 ELSE 0)
              + (IF quality = "excellent" THEN 20 ELSE IF quality = "good" THEN 15
                 ELSE IF quality = "fair" THEN 8 ELSE 0))
      sleep_score ==
        RoundHalfEven(Sum([i \in 1..Len(week) |-> SleepDay(week[i])]), Len(week))
  IN  <<Category("Blood Pressure Control", bp_score),
        Category("Medication Adherence", med_score),
        Category("Lifestyle Factors", lifestyle_score),
        Category("Monitoring Consistency", monitoring_score)>>
      \o (IF D.lifestyle # <<>> THEN <<Category("Sleep & Recovery", sleep_score)>> ELSE <<>>)

\* improvement_areas of calculate_health_score, from the scores of the
\* categories in the order of the sections, cut to the first 5
ImprovementAreas(categories) ==
  LET Score(i) == categories[i].score
      areas ==
        (IF Score(1) < 70 THEN <<"Focus on consistent blood pressure management">> ELSE <<>>)
        \o (IF Score(1) < 50 THEN <<"Consult your doctor about adjusting treatment">> ELSE <<>>)
        \o (IF Score(2) < 85 THEN <<"Set reminders to improve medication consistency">>
            ELSE <<>>)
        \o (IF Score(3) < 70 THEN <<"Increase physical activity to 150 min/week">> ELSE <<>>)
        \o (IF Score(3) < 60 THEN <<"Reduce sodium intake below 2000mg/day">> ELSE <<>>)
        \o (IF Score(4) < 70 THEN <<"Monitor blood pressure more regularly">> ELSE <<>>)
        \o (IF Len(categories) = 5 /\ Score(5) < 70
            THEN <<"Improve sleep quality and duration">> ELSE <<>>)
  IN  Take(areas, 5)

\* Where the weighted mean of the category scores lies exactly half-way
\* between two integers, the double precision value of
\* sum(c.score * weight) / total_weight is that mean ("exact"), the double
\* just below it ("below") or the double just above it ("above"): the scores
\* of the categories, in order, of the half-way cases of the model
FloatQuotientAtTie ==
  (<<3, 76, 50, 100>> :> "below") @@
  (<<100, 85, 50, 17>> :> "exact") @@
  (<<100, 85, 50, 71>> :> "below") @@
  (<<5, 75, 90, 100, 80>> :> "exact") @@
  (<<5, 85, 70, 100, 95>> :> "exact") @@
  (<<35, 75, 52, 86, 65>> :> "exact") @@
  (<<35, 75, 70, 20, 95>> :> "exact") @@
  (<<35, 85, 90, 20, 80>> :> "exact") @@
  (<<50, 60, 45, 0, 60>> :> "exact") @@
  (<<50, 60, 90, 0, 80>> :> "exact") @@
  (<<50, 76, 90, 0, 80>> :> "exact") @@
  (<<50, 96, 45, 0, 60>> :> "exact") @@
  (<<50, 96, 90, 0, 80>> :> "exact") @@
  (<<65, 75, 90, 100, 80>> :> "exact") @@
  (<<65, 85, 70, 100, 95>> :> "exact")

\* overall = round(sum(c.score * weights.get(c.name, 0.1)) / total_weight),
\* with the weights in hundredths
OverallScore(categories) ==
  LET weights == ("Blood Pressure Control" :> 35) @@ ("Medication Adherence" :> 25)
                 @@ ("Lifestyle Factors" :> 20) @@ ("Monitoring Consistency" :> 10)
                 @@ ("Sleep & Recovery" :> 10)
      n == Len(categories)
      weighted == Sum([i \in 1..n |-> categories[i].score * weights[categories[i].name]])
      total_weight == Sum([i \in 1..n |-> weights[categories[i].name]])
      scores == Field(categories, "score")
  IN  IF 2 * (weighted % total_weight) # total_weight
      THEN RoundHalfEven(weighted, total_weight)
      ELSE CASE FloatQuotientAtTie[scores] = "below" -> weighted \div total_weight
             [] FloatQuotientAtTie[scores] = "above" -> (weighted \div total_weight) + 1
             [] FloatQuotientAtTie[scores] = "exact" ->
                  RoundHalfEven(weighted, total_weight)

----------------------------------------------------------------------------
(* Trend predictions (app/services/predictions.py) *)

RECURSIVE GCD(_, _)
GCD(a, b) == IF b = 0 THEN a ELSE GCD(b, a % b)

\* round(num / den, 1) in tenths, for den > 0
RoundTenths(num, den) == 10 * (num \div den) + RoundHalfEven(10 * (num % den), den)

\* sorted(readings, key=lambda x: x["measurement_date"]): oldest first,
\* readings of the same date in the order they have
SortByDate(readings) ==
  LET RECURSIVE Insert(_, _)
      Insert(x, sorted) ==
        IF sorted = <<>> THEN <<x>>
        ELSE IF x.day < Head(sorted).day THEN <<x>> \o sorted
        ELSE <<Head(sorted)>> \o Insert(x, Tail(sorted))
      RECURSIVE Sort(_)
      Sort(seq) ==
        IF seq = <<>> THEN <<>>
        ELSE Insert(seq[Len(seq)], Sort(SubSeq(seq, 1, Len(seq) - 1)))
  IN  Sort(readings)

\* a trend in which a falling blood pressure is worsening
TrendOfFallingIsWorsening(metric_key, Sxy, Sxx, days_span) ==
  IF 20 * Sxy < 0 - 3 * Sxx * days_span THEN "worsening"
  ELSE IF 20 * Sxy > 3 * Sxx * days_span THEN "improving"
  ELSE "stable"

\* trend from daily_change = 2 Sxy / (Sxx days_span): for blood pressure
\* below -0.3 improving and above 0.3 worsening, for the heart rate stable
\* within 0.5
TrendOf(metric_key, Sxy, Sxx, days_span) ==
  IF metric_key \in {"systolic", "diastolic"}
  THEN IF 20 * Sxy < 0 - 3 * Sxx * days_span THEN "improving"
       ELSE IF 20 * Sxy > 3 * Sxx * days_span THEN "worsening"
       ELSE "stable"
  ELSE IF Sxx = 0 \/ (4 * Sxy < Sxx * days_span /\ 0 - 4 * Sxy < Sxx * days_span)
       THEN "stable"
       ELSE IF Sxy < 0 THEN "improving" ELSE "worsening"

\* a confidence computed from r_squared = 1 - ss_res / ss_tot without the
\* test of ss_tot: for ss_tot = 0 the quotient is undefined and min(95, nan)
\* is 95
ConfidenceUndefinedWhenFlat(n, a, b, ss_tot) ==
  LET data == IF n < 30 THEN n ELSE 30
  IN  IF n > 1
      THEN IF ss_tot = 0 \/ 10 * data * a >= 95 * 3 * b THEN 95
           ELSE IF 10 * data * a < 30 * 3 * b THEN 30
           ELSE (10 * data * a) \div (3 * b)
      ELSE 30

\* a confidence that is not clamped
ConfidenceUnclamped(n, a, b, ss_tot) ==
  LET data == IF n < 30 THEN n ELSE 30
  IN  IF n > 1 /\ ss_tot > 0 THEN (10 * data * a) \div (3 * b) ELSE 0

\* confidence = int(max(30, min(95, r_squared * 100 * data_factor))) for
\* r_squared = a / b (0 when ss_tot is 0) and data_factor = min(1.0, n / 30)
Confidence(n, a, b, ss_tot) ==
  LET data == IF n < 30 THEN n ELSE 30
  IN  IF n > 1 /\ ss_tot > 0
      THEN IF 10 * data * a >= 95 * 3 * b THEN 95
           ELSE IF 10 * data * a < 30 * 3 * b THEN 30
           ELSE (10 * data * a) \div (3 * b)
      ELSE 30

\* _calculate_metric_prediction. currentValue and predictedValue are in
\* tenths, as round(value, 1) leaves them. The regression is computed in
\* integers: X(i) is twice x - x_mean, Y(i) is n times y - y_mean, so that
\* numerator = Sxy / 2n, denominator = Sxx / 4 and ss_tot = Syy / n^2, and
\*   slope = 2 Sxy / (n Sxx),  r_squared = Sxy^2 / (Sxx Syy),
\*   daily_change = slope * n / days_span = 2 Sxy / (Sxx days_span),
\*   predicted_value = intercept + slope * (n + timeframe_days * n / days_span)
\*                   = P / Q.
MetricPrediction(readings, metric_key, metric_name, timeframe_days) ==
  LET lowest == CASE metric_key = "systolic" -> 80 [] metric_key = "diastolic" -> 50
                  [] metric_key = "pulse" -> 40
      highest == CASE metric_key = "systolic" -> 200 [] metric_key = "diastolic" -> 130
                   [] metric_key = "pulse" -> 150
      \* the prediction from predicted_value = P / Q and r_squared = a / b
      Predicted(n, current_value, Sxy, Sxx, Syy, days_span, P, Q, a, b) ==
        [metric |-> metric_name,
         currentValue |-> current_value,
         predictedValue |-> IF P < lowest * Q THEN 10 * lowest
                            ELSE IF P > highest * Q THEN 10 * highest
                            ELSE RoundTenths(P, Q),
         confidence |-> Confidence(n, a, b, Syy),
         timeframe |-> <<timeframe_days, " days">>,
         trend |-> TrendOf(metric_key, Sxy, Sxx, days_span)]
      \* r_squared = (a1 / b1) * (a2 / b2) = a / b in lowest terms
      Squared(n, current_value, Sxy, Sxx, Syy, days_span, P, Q, a1, b1, a2, b2) ==
        Predicted(n, current_value, Sxy, Sxx, Syy, days_span, P, Q,
                  (a1 \div GCD(a1, b2)) * (a2 \div GCD(a2, b1)),
                  (b1 \div GCD(a2, b1)) * (b2 \div GCD(a1, b2)))
      Fitted(n, current_value, sum_y, Sxy, Sxx, Syy, days_span, abs) ==
        Squared(n, current_value, Sxy, Sxx, Syy, days_span,
                IF Sxx = 0 THEN sum_y
                ELSE sum_y * Sxx * days_span
                     + Sxy * (n * days_span + days_span + 2 * timeframe_days * n),
                IF Sxx = 0 THEN n ELSE n * Sxx * days_span,
                abs \div GCD(abs, Sxx), Sxx \div GCD(abs, Sxx),
                abs \div GCD(abs, Syy), Syy \div GCD(abs, Syy))
      Summed(n, current_value, sum_y, Sxy, Sxx, Syy, span) ==
        Fitted(n, current_value, sum_y, Sxy, Sxx, Syy,
               IF n < 2 THEN n ELSE IF span = 0 THEN 1 ELSE span,
               IF Sxy < 0 THEN 0 - Sxy ELSE Sxy)
      Valued(values, n, sum_y, recent_values, span) ==
        Summed(n, RoundTenths(Sum(recent_values), Len(recent_values)), sum_y,
               Sum([i \in 1..n |-> (2 * (i - 1) - (n - 1)) * (n * values[i] - sum_y)]),
               Sum([i \in 1..n |-> (2 * (i - 1) - (n - 1)) * (2 * (i - 1) - (n - 1))]),
               Sum([i \in 1..n |-> (n * values[i] - sum_y) * (n * values[i] - sum_y)]),
               span)
      Sorted(sorted_readings, values, n) ==
        Valued(values, n, Sum(values),
               IF n >= 7 THEN SubSeq(values, n - 6, n) ELSE values,
               sorted_readings[n].day - sorted_readings[1].day)
      Ordered(sorted_readings) ==
        Sorted(sorted_readings, Field(sorted_readings, metric_key), Len(sorted_readings))
  IN  Ordered(SortByDate(readings))
----------------------------------------------------------------------------
(* Forecast (app/services/forecast.py) *)

\* round(value, 1) of the double nearest to whole + num / den tenths, for
\* den > 0. A value half-way between two tenths is rounded by the digits of
\* its double precision representation, which are not modelled: the result
\* is left undefined there, and no history of the model leads to one.
RoundMixed(whole, num, den) ==
  LET q == whole + (num \div den)
      r == num % den
  IN  IF 2 * r < den THEN q
      ELSE IF 2 * r > den THEN q + 1
      ELSE CHOOSE tenth \in {} : TRUE

\* _build_historical_data: the average of the values of each date, oldest
\* date first, in tenths as round(avg_value, 1) leaves it
HistoricalData(readings, metric) ==
  LET valued == SelectSeq(readings, LAMBDA r : r[metric] # NoneInt)
      dates == {valued[i].day : i \in 1..Len(valued)}
      OfDate(d) == Field(SelectSeq(valued, LAMBDA r : r.day = d), metric)
      RECURSIVE Sorted(_)
      Sorted(ds) ==
        IF ds = {} THEN <<>>
        ELSE LET d == CHOOSE x \in ds : \A y \in ds : x <= y
             IN  <<[date |-> d, value |-> RoundTenths(Sum(OfDate(d)), Len(OfDate(d)))]>>
                 \o Sorted(ds \ {d})
  IN  Sorted(dates)

\* _generate_forecast_points. All values are in tenths. The regression is
\* computed in integers as in MetricPrediction, with Y(i) divided by the
\* common divisor g of its values:
\*   predicted = whole + part / Q for x_future = n + i - 1,
\*   std_error = g * sqrt((Syy Sxx - Sxy^2) / (n^3 Sxx)),
\*   margin = 1.96 * std_error * (1 + (i / forecast_days) * 0.5) = MN(i) / MD.
\* np.std is defined here for residuals whose mean square is the square of
\* a rational number, as it is for the histories of the model.
ForecastPoints(historical, forecast_days, metric) ==
  LET lowest == CASE metric = "systolic" -> 80 [] metric = "diastolic" -> 50
                  [] OTHER -> 40
      highest == CASE metric = "systolic" -> 200 [] metric = "diastolic" -> 130
                   [] OTHER -> 150
      ceiling == CASE metric = "systolic" -> 220 [] metric = "diastolic" -> 150
                   [] OTHER -> 180
      floor == CASE metric = "systolic" -> 70 [] metric = "diastolic" -> 40
                 [] OTHER -> 30
      Abs(k) == IF k < 0 THEN 0 - k ELSE k
      \* the point of day i from predicted = whole + part / q,
      \* predicted + margin = whole + up / den, predicted - margin =
      \* whole + down / den: min(ceiling, ...) and max(floor, ...)
      Banded(date, whole, part, q, up, down, den) ==
        [date |-> date,
         predicted |-> RoundMixed(whole, part, q),
         upperBound |->
           IF \/ whole + (up \div den) > 10 * ceiling
              \/ (whole + (up \div den) = 10 * ceiling /\ up % den > 0)
           THEN 10 * ceiling ELSE RoundMixed(whole, up, den),
         lowerBound |->
           IF whole + (down \div den) < 10 * floor
           THEN 10 * floor ELSE RoundMixed(whole, down, den)]
      \* margin = mn / md
      Margined(date, whole, part, q, mn, md) ==
        Banded(date, whole, part, q, part * md + mn * q, part * md - mn * q, q * md)
      \* predicted = max(lowest, min(highest, raw + rest / Q)), margin = MN / MD
      Clamped(date, raw, rest, Q, MN, MD, common) ==
        IF raw < 10 * lowest
        THEN Margined(date, 10 * lowest, 0, 1, MN \div common, MD \div common)
        ELSE IF raw > 10 * highest \/ (raw = 10 * highest /\ rest > 0)
        THEN Margined(date, 10 * highest, 0, 1, MN \div common, MD \div common)
        ELSE Margined(date, raw, rest \div GCD(rest, Q), Q \div GCD(rest, Q),
                      MN \div common, MD \div common)
      Day(date, mean, Part, Q, MN, MD) ==
        Clamped(date, mean + (Part \div Q), Part % Q, Q, MN, MD, GCD(MN, MD))
      \* std_error = g * sn / sd
      Erred(last_date, n, sum_y, g, Sxy, Sxx, sn, sd) ==
        [i \in 1..forecast_days |->
           Day(last_date + i, sum_y \div n,
               IF Sxx = 0 THEN sum_y % n
               ELSE (sum_y % n) * Sxx + g * Sxy * (n + 2 * i - 1),
               IF Sxx = 0 THEN n ELSE n * Sxx,
               49 * (2 * forecast_days + i) * g * sn,
               25 * 2 * forecast_days * sd)]
      Spread(last_date, n, sum_y, g, Sxy, Sxx, A, B) ==
        Erred(last_date, n, sum_y, g, Sxy, Sxx,
              IF n <= 2 THEN 100 ELSE IF A = 0 THEN 0
              ELSE CHOOSE r \in 0..A : r * r = A \div GCD(A, B),
              IF n <= 2 \/ A = 0 THEN 1 ELSE CHOOSE r \in 1..B : r * r = B \div GCD(A, B))
      Regressed(last_date, n, sum_y, g, Sxy, Sxx, Syy) ==
        Spread(last_date, n, sum_y, g, Sxy, Sxx, Syy * Sxx - Sxy * Sxy, n * n * n * Sxx)
      Divided(last_date, values, n, sum_y, g) ==
        Regressed(last_date, n, sum_y, g,
                  Sum([i \in 1..n |->
                         (2 * (i - 1) - (n - 1)) * ((n * values[i] - sum_y) \div g)]),
                  Sum([i \in 1..n |-> (2 * (i - 1) - (n - 1)) * (2 * (i - 1) - (n - 1))]),
                  Sum([i \in 1..n |->
                         ((n * values[i] - sum_y) \div g) * ((n * values[i] - sum_y) \div g)]))
      RECURSIVE Divisor(_, _, _, _, _)
      Divisor(values, n, sum_y, i, d) ==
        IF i = 0 \/ d = 1 THEN d
        ELSE Divisor(values, n, sum_y, i - 1, GCD(Abs(n * values[i] - sum_y), d))
      Common(last_date, values, n, sum_y, d) ==
        Divided(last_date, values, n, sum_y, IF d = 0 THEN 1 ELSE d)
      Summed(values, n, sum_y) ==
        Common(historical[n].date, values, n, sum_y, Divisor(values, n, sum_y, n, 0))
      Valued(values) == Summed(values, Len(values), Sum(values))
  IN  Valued(Field(historical, "value"))

----------------------------------------------------------------------------
(* Pattern analysis (app/services/patterns.py). A pattern is kept as its    *)
(* type and severity; its frequency and description are formatted text.     *)
(* Averages are compared exactly, as sums over counts.                      *)

Pattern(type, severity) == [type |-> type, severity |-> severity]

\* the systolic values averaged: their sum and their number
Group(readings) == [sum |-> Sum(Field(readings, "systolic")), n |-> Len(readings)]

\* mean(a) - mean(b) > d
MeanExceeds(a, b, d) == a.sum * b.n - b.sum * a.n > d * a.n * b.n

\* _analyze_time_patterns: periods with at least 3 readings are averaged;
\* the evening average is that of "evening", else that of "night"
TimePatterns(readings) ==
  LET At(tod) == SelectSeq(readings, LAMBDA r : r.time_of_day = tod)
      averaged == {tod \in {readings[i].time_of_day : i \in 1..Len(readings)} :
                     Len(At(tod)) >= 3}
      morning == Group(At("morning"))
      evening == Group(IF "evening" \in averaged THEN At("evening") ELSE At("night"))
  IN  IF /\ Cardinality(averaged) >= 2
         /\ "morning" \in averaged /\ morning.sum # 0
         /\ ("evening" \in averaged \/ "night" \in averaged) /\ evening.sum # 0
      THEN IF MeanExceeds(morning, evening, 15)
           THEN <<Pattern("Morning Spike",
                          IF morning.sum * evening.n - evening.sum * morning.n
                               < 25 * morning.n * evening.n
                          THEN "moderate" ELSE "high")>>
           ELSE IF MeanExceeds(evening, morning, 15)
           THEN <<Pattern("Evening Elevation", "moderate")>>
           ELSE <<>>
      ELSE <<>>

DayNames == <<"Monday", "Tuesday", "Wednesday", "Thursday", "Friday", "Saturday", "Sunday">>

\* date.strftime("%A"), with the day of the request (day 0) a Monday
DayName(day) == DayNames[(day % 7) + 1]

\* _analyze_weekly_patterns: the days of the week with at least 2 readings
\* are averaged; with 3 such days the averages of the weekdays and of the
\* weekend days are compared, and the highest with the lowest day. The day
\* averages are scaled by the least common multiple of the numbers of
\* readings.
WeeklyPatterns(readings) ==
  LET On(i) == SelectSeq(readings, LAMBDA r : DayName(r.day) = DayNames[i])
      averaged == {i \in 1..7 : Len(On(i)) >= 2}
      RECURSIVE Lcm(_)
      Lcm(i) == IF i = 0 THEN 1
                ELSE IF i \in averaged
                THEN (Lcm(i - 1) \div GCD(Lcm(i - 1), Len(On(i)))) * Len(On(i))
                ELSE Lcm(i - 1)
      Compared(scale, scaled) ==
        LET weekdays == averaged \cap 1..5
            weekend == averaged \cap {6, 7}
            weekday_sum == Sum([i \in 1..7 |-> IF i \in weekdays THEN scaled[i] ELSE 0])
            weekend_sum == Sum([i \in 1..7 |-> IF i \in weekend THEN scaled[i] ELSE 0])
            kd == Cardinality(weekdays)
            ke == Cardinality(weekend)
            highest == MaxOf(SelectSeq(scaled, LAMBDA v : v >= 0))
            lowest == MinOf(SelectSeq(scaled, LAMBDA v : v >= 0))
        IN  (IF weekdays # {} /\ weekend # {}
             THEN IF weekend_sum * kd - weekday_sum * ke > 8 * scale * kd * ke
                  THEN <<Pattern("Weekend Effect", "low")>>
                  ELSE IF weekday_sum * ke - weekend_sum * kd > 8 * scale * kd * ke
                  THEN <<Pattern("Workweek Stress", "moderate")>>
                  ELSE <<>>
             ELSE <<>>)
            \o (IF highest - lowest > 12 * scale
                THEN <<Pattern("Weekly Variation", "low")>>
                ELSE <<>>)
      Scaled(scale) ==
        Compared(scale, [i \in 1..7 |->
                           IF i \in averaged
                           THEN Group(On(i)).sum * (scale \div Len(On(i)))
                           ELSE -1])
  IN  IF Cardinality(averaged) >= 3 THEN Scaled(Lcm(7)) ELSE <<>>

\* _analyze_position_patterns
PositionPatterns(readings) ==
  LET sitting == Group(SelectSeq(readings, LAMBDA r : r.position = "sitting"))
      standing == Group(SelectSeq(readings, LAMBDA r : r.position = "standing"))
  IN  IF sitting.n >= 3 /\ standing.n >= 3
      THEN IF MeanExceeds(standing, sitting, 10)
           THEN <<Pattern("Orthostatic Variation", "moderate")>>
           ELSE IF MeanExceeds(sitting, standing, 15)
           THEN <<Pattern("Orthostatic Hypotension Risk", "high")>>
           ELSE <<>>
      ELSE <<>>

\* _analyze_lifestyle_patterns: the readings of the dates that have a
\* lifestyle entry (the last entry of a date counts) are split by stress, by
\* activity and by sleep (in tenths of an hour)
LifestylePatterns(readings, lifestyle) ==
  LET dates == {lifestyle[i].entry_day : i \in 1..Len(lifestyle)}
      EntryOf(d) ==
        lifestyle[CHOOSE i \in 1..Len(lifestyle) :
                    /\ lifestyle[i].entry_day = d
                    /\ \A j \in 1..Len(lifestyle) : lifestyle[j].entry_day = d => j <= i]
      Of(days) == Group(SelectSeq(readings, LAMBDA r : r.day \in days))
      high_stress == Of({d \in dates : StrOf(EntryOf(d), "stress_level") \in {"high", "severe"}})
      low_stress == Of({d \in dates : StrOf(EntryOf(d), "stress_level") = "low"})
      exercise == Of({d \in dates : NumOr(EntryOf(d), "physical_activity", 0) >= 30})
      no_exercise == Of({d \in dates : NumOr(EntryOf(d), "physical_activity", 0) < 10})
      poor_sleep == Of({d \in dates : NumOr(EntryOf(d), "sleep_duration", 70) < 60})
      good_sleep == Of({d \in dates : NumOr(EntryOf(d), "sleep_duration", 70) >= 70})
  IN  (IF high_stress.n >= 3 /\ low_stress.n >= 3 /\ MeanExceeds(high_stress, low_stress, 10)
       THEN <<Pattern("Stress Response", "moderate")>> ELSE <<>>)
      \o (IF exercise.n >= 3 /\ no_exercise.n >= 3 /\ MeanExceeds(no_exercise, exercise, 5)
          THEN <<Pattern("Exercise Benefit", "low")>> ELSE <<>>)
      \o (IF poor_sleep.n >= 2 /\ good_sleep.n >= 2 /\ MeanExceeds(poor_sleep, good_sleep, 8)
          THEN <<Pattern("Sleep Impact", "moderate")>> ELSE <<>>)

\* _analyze_variability_patterns: the standard deviation of the latest 14
\* systolic values against 15 and 8, as n * sum of squares - square of sum
\* against 225 n^2 and 64 n^2
VariabilityPatterns(readings) ==
  LET values == Field(Take(readings, 14), "systolic")
      n == Len(values)
      spread == n * Sum([i \in 1..n |-> values[i] * values[i]]) - Sum(values) * Sum(values)
  IN  IF Len(readings) < 7 THEN <<>>
      ELSE IF spread > 225 * n * n THEN <<Pattern("High Variability", "high")>>
      ELSE IF spread < 64 * n * n THEN <<Pattern("Consistent Readings", "low")>>
      ELSE <<>>

\* the patterns in the order the analyses find them
DetectedPatterns(readings, lifestyle) ==
  TimePatterns(readings) \o WeeklyPatterns(readings) \o PositionPatterns(readings)
  \o (IF lifestyle # <<>> THEN LifestylePatterns(readings, lifestyle) ELSE <<>>)
  \o VariabilityPatterns(readings)

\* a list left in the order it has
KeepOrder(patterns) == patterns

\* patterns.sort(key=lambda x: severity_order.get(x.severity, 3)): the sort
\* is stable
SortBySeverity(patterns) ==
  SelectSeq(patterns, LAMBDA p : p.severity = "high")
  \o SelectSeq(patterns, LAMBDA p : p.severity = "moderate")
  \o SelectSeq(patterns, LAMBDA p : p.severity = "low")
  \o SelectSeq(patterns, LAMBDA p : p.severity \notin {"high", "moderate", "low"})
\* Python values the routines return and the cache stores: lists, pydantic
\* models (the records of the routines) and the dicts made of them
PyList(items) == [tag |-> "list", items |-> items]

\* model.dict()
ModelDict(m) == [tag |-> "dict", fields |-> m]

\* Model(**d): the model validated from a dict
ParseModel(d) == d.fields

\* bool(value), as in "if cached:"
Truthy(v) ==
  CASE v.tag = "None" -> FALSE
    [] v.tag = "list" -> v.items # <<>>
    [] OTHER -> TRUE

\* outcome of a routine: the artifact it returns or the error it raises, with
\* the Database queries it made, in order
Returned(artifact, fetches) == [tag |-> "ok", value |-> artifact, fetches |-> fetches]

Raised(error, fetches) == [tag |-> "raised", value |-> error, fetches |-> fetches]

NoPatient == [exists |-> FALSE]

\* In the routines below D is what the Database queries of the routine return:
\* D.patient (NoPatient when fetch_patient returns None), D.readings,
\* D.medications, D.medication_logs, D.lifestyle.

\* generate_insights without its early return for few readings
GenerateInsightsNoShortCircuit(patient_id, days, D, clock, seed) ==
  IF ~D.patient.exists
  THEN Raised(PatientNotFoundError(patient_id), <<"patient">>)
  ELSE
  LET insights ==
        AnalyzeBpPatterns(D.readings, clock)
        \o (IF D.medications # <<>>
            THEN AnalyzeMedicationAdherence(D.medications, clock) ELSE <<>>)
        \o (IF D.lifestyle # <<>>
            THEN AnalyzeLifestyle(D.lifestyle, clock) ELSE <<>>)
        \o AnalyzeTimePatterns(D.readings, clock)
  IN  Returned(PyList(Take(SortByPriority(WithIds(insights, seed)), 8)),
               <<"patient", "readings", "medications", "lifestyle">>)

\* generate_insights; clock is datetime.now(), seed the state of the uuid
\* generator
GenerateInsights(patient_id, days, D, clock, seed) ==
  IF ~D.patient.exists
  THEN Raised(PatientNotFoundError(patient_id), <<"patient">>)
  ELSE
  LET fetches == <<"patient", "readings", "medications", "lifestyle">>
      timestamp == clock
  IN  IF Len(D.readings) < min_readings_for_analysis
      THEN Returned(PyList(WithIds(
             <<Insight("info", "More Data Needed",
                 <<"You have {} readings. We need at least {} for detailed analysis.",
                   Len(D.readings), min_readings_for_analysis>>,
                 3, timestamp,
                 <<"Take your blood pressure daily", "Log readings at consistent times">>)>>,
             seed)), fetches)
      ELSE
      LET insights ==
            AnalyzeBpPatterns(D.readings, timestamp)
            \o (IF D.medications # <<>>
                THEN AnalyzeMedicationAdherence(D.medications, timestamp) ELSE <<>>)
            \o (IF D.lifestyle # <<>>
                THEN AnalyzeLifestyle(D.lifestyle, timestamp) ELSE <<>>)
            \o AnalyzeTimePatterns(D.readings, timestamp)
      IN  Returned(PyList(Take(SortByPriority(WithIds(insights, seed)), 8)), fetches)

ReadingsError(message, n) ==
  InsufficientDataError(message,
    [readings_count |-> n, minimum_required |-> min_readings_for_analysis])

\* calculate_risk_assessment: riskScore and overallRisk are computed; the
\* factors and recommendations are represented by the records they are
\* computed from
CalculateRiskAssessment(patient_id, days, D) ==
  IF ~D.patient.exists
  THEN Raised(PatientNotFoundError(patient_id), <<"patient">>)
  ELSE Returned([tag |-> "RiskAssessment", patient |-> D.patient,
                 readings |-> Take(D.readings, 14), medications |-> D.medications,
                 lifestyle |-> Take(D.lifestyle, 1),
                 riskScore |-> RiskScore(D), overallRisk |-> OverallRisk(RiskScore(D))],
                <<"patient", "readings", "medications", "medication_logs", "lifestyle">>)

\* r.get("pulse"): None and 0 are false
HasPulse(r) == r.pulse # NoneInt /\ r.pulse # 0

\* calculate_predictions
CalculatePredictions(patient_id, days, D) ==
  IF ~D.patient.exists
  THEN Raised(PatientNotFoundError(patient_id), <<"patient">>)
  ELSE IF Len(D.readings) < min_readings_for_analysis
  THEN Raised(ReadingsError(<<"Not enough readings for predictions (have {}, need {})",
                              Len(D.readings), min_readings_for_analysis>>,
                            Len(D.readings)),
              <<"patient", "readings">>)
  ELSE
  LET readings_with_pulse == SelectSeq(D.readings, HasPulse)
  IN  Returned(PyList(
        <<MetricPrediction(D.readings, "systolic", "Systolic BP", 30),
          MetricPrediction(D.readings, "diastolic", "Diastolic BP", 30)>>
        \o (IF Len(readings_with_pulse) >= 5
            THEN <<MetricPrediction(readings_with_pulse, "pulse", "Heart Rate", 30)>>
            ELSE <<>>)),
        <<"patient", "readings">>)

\* the exception of a division of a number by the integer 0
ZeroDivisionError == [tag |-> "exception", message |-> "division by zero"]

\* calculate_health_score: overall, categories and improvementAreas are
\* computed; the records and the window length are kept with them
CalculateHealthScore(patient_id, days, D) ==
  IF ~D.patient.exists
  THEN Raised(PatientNotFoundError(patient_id), <<"patient">>)
  ELSE IF D.readings # <<>> /\ days = 0
  THEN \* _calculate_monitoring_score: actual_readings / expected_readings
       Raised(ZeroDivisionError, <<"patient", "readings", "medications", "lifestyle">>)
  ELSE Returned([tag |-> "HealthScore", readings |-> D.readings,
                 medications |-> D.medications, lifestyle |-> D.lifestyle, days |-> days,
                 overall |-> OverallScore(HealthCategories(D, days)),
                 categories |-> HealthCategories(D, days),
                 improvementAreas |-> ImprovementAreas(HealthCategories(D, days))],
                <<"patient", "readings", "medications", "lifestyle">>)

\* analyze_patterns: the first 10 of the sorted patterns
AnalyzePatterns(patient_id, days, D) ==
  IF ~D.patient.exists
  THEN Raised(PatientNotFoundError(patient_id), <<"patient">>)
  ELSE IF Len(D.readings) < min_readings_for_analysis
  THEN Raised(ReadingsError(<<"Not enough readings for pattern analysis (have {}, need {})",
                              Len(D.readings), min_readings_for_analysis>>,
                            Len(D.readings)),
              <<"patient", "readings", "lifestyle">>)
  ELSE Returned([tag |-> "PatternAnalysis",
                 patterns |-> Take(SortBySeverity(DetectedPatterns(D.readings, D.lifestyle)), 10)],
                <<"patient", "readings", "lifestyle">>)

\* a lifestyle entry puts its date into the daily map when one of the copied
\* fields is not None
HasDailyField(e) ==
  \/ \E key \in {"physical_activity", "sleep_duration", "water_intake", "weight",
                 "sodium_mg", "caffeine_intake", "alcohol_consumption"} \cap DOMAIN e :
        e[key] # NoneInt
  \/ \E key \in {"stress_level", "salt_intake"} \cap DOMAIN e : e[key] # NoneStr

\* len(_build_daily_data(readings, lifestyle)): the number of dates with data
DailyDataDays(readings, lifestyle) ==
  Cardinality({readings[i].day : i \in 1..Len(readings)}
              \cup {lifestyle[i].entry_day :
                      i \in {j \in 1..Len(lifestyle) : HasDailyField(lifestyle[j])}})

\* The pairs (outcome, factor) of the dates, in ascending order, that have a
\* systolic value and a value of the factor. The outcome is the daily average
\* of systolic; the factor is a daily average (diastolic, pulse), the number
\* of the stress level or the field of the last lifestyle entry of the date
\* that has it. The daily averages of a series are kept as multiples of
\* 1 / scale, scale being the least common multiple of the numbers of readings
\* of the dates: the correlation coefficient does not change with the unit.
FactorPairs(readings, lifestyle, factor_key) ==
  LET RECURSIVE Ascending(_)
      Ascending(S) ==
        IF S = {} THEN <<>>
        ELSE LET first == CHOOSE m \in S : \A e \in S : m <= e
             IN  <<first>> \o Ascending(S \ {first})
      dates == Ascending({readings[i].day : i \in 1..Len(readings)})
      OnDate(d) == SelectSeq(readings, LAMBDA r : r.day = d)
      Values(d, key) ==
        IF key = "pulse" THEN Field(SelectSeq(OnDate(d), HasPulse), key)
        ELSE Field(OnDate(d), key)
      RECURSIVE Scale(_, _)
      Scale(key, i) ==
        IF i = 0 THEN 1
        ELSE LET count == Len(Values(dates[i], key))
                 rest == Scale(key, i - 1)
             IN  IF count = 0 THEN rest ELSE (rest * count) \div GCD(rest, count)
      Average(d, key) ==
        Sum(Values(d, key)) * (Scale(key, Len(dates)) \div Len(Values(d, key)))
      stress_map == [low |-> 1, moderate |-> 2, high |-> 3, severe |-> 4]
      Entries(d) ==
        {i \in 1..Len(lifestyle) :
           /\ lifestyle[i].entry_day = d
           /\ factor_key \in DOMAIN lifestyle[i]
           /\ IF factor_key = "stress_level" THEN lifestyle[i][factor_key] # NoneStr
              ELSE lifestyle[i][factor_key] # NoneInt}
      Entry(d) == lifestyle[CHOOSE i \in Entries(d) : \A j \in Entries(d) : j <= i][factor_key]
      Factor(d) ==
        IF factor_key \in {"diastolic", "pulse"}
        THEN IF Values(d, factor_key) = <<>> THEN NoneInt ELSE Average(d, factor_key)
        ELSE IF Entries(d) = {} THEN NoneInt
        ELSE IF factor_key # "stress_level" THEN Entry(d)
        ELSE IF Entry(d) \in DOMAIN stress_map THEN stress_map[Entry(d)] ELSE NoneInt
      complete == SelectSeq(dates, LAMBDA d : Factor(d) # NoneInt)
  IN  [i \in 1..Len(complete) |-> <<Average(complete[i], "systolic"), Factor(complete[i])>>]

\* The sign of a * b - c * d for natural numbers, found without forming the
\* products: a / c is compared with d / b, whole parts first and then the
\* inverted remainders.
CompareProducts(a, b, c, d) ==
  LET RECURSIVE CompareQuotients(_, _, _, _)
      CompareQuotients(p, q, r, s) ==
        IF p \div q # r \div s THEN (IF p \div q < r \div s THEN 0 - 1 ELSE 1)
        ELSE IF p % q = 0 THEN (IF r % s = 0 THEN 0 ELSE 0 - 1)
        ELSE IF r % s = 0 THEN 1
        ELSE CompareQuotients(s, r % s, q, p % q)
  IN  IF a = 0 \/ b = 0 THEN (IF c = 0 \/ d = 0 THEN 0 ELSE 0 - 1)
      ELSE IF c = 0 \/ d = 0 THEN 1
      ELSE CompareQuotients(a, c, d, b)

\* a correlation coefficient of size 1, for which the fractions are skipped
PearsonOfAligned(pairs) ==
  IF Len(pairs) < 5 THEN None ELSE [correlation |-> 1000, strength |-> "strong"]

\* the coefficient computed with the outcome alone in the denominator
PearsonByOutcome(pairs) ==
  LET n == Len(pairs)
      sum_x == Sum([i \in 1..n |-> pairs[i][1]])
      sum_y == Sum([i \in 1..n |-> pairs[i][2]])
      numerator == n * Sum([i \in 1..n |-> pairs[i][1] * pairs[i][2]]) - sum_x * sum_y
      spread == n * Sum([i \in 1..n |-> pairs[i][1] * pairs[i][1]]) - sum_x * sum_x
  IN  IF n < 5 \/ spread <= 0 \/ (10 * numerator < spread /\ 0 - 10 * numerator < spread)
      THEN None
      ELSE [correlation |-> IF numerator > 0 THEN 1000 ELSE 0 - 1000, strength |-> "strong"]

\* _calculate_factor_correlation and _calculate_stress_correlation on their
\* pairs: None, or the coefficient numerator / sqrt(denominator_sq) as its
\* rounding to three decimals (in thousandths, round(corr_value, 3)) and the
\* strength of the unrounded value (_correlation_strength). The squared
\* coefficient is size * size / (spread_x * spread_y); it is brought to lower
\* terms and compared with squared bounds. A coefficient exactly half-way
\* between two thousandths has no rounding here.
Pearson(pairs) ==
  LET \* the sign of abs(correlation) - bound / scale, the squared
      \* coefficient being (a * b) / (c * d)
      Against(a, b, c, d, bound, scale) ==
        CompareProducts(scale * a, scale * b, bound * c, bound * d)
      Rounded(numerator, a, b, c, d) ==
        IF Against(a, b, c, d, 1, 10) < 0 THEN None
        ELSE LET thousandths ==
                   CHOOSE t \in 100..1000 :
                     /\ Against(a, b, c, d, 2 * t - 1, 2000) > 0
                     /\ Against(a, b, c, d, 2 * t + 1, 2000) < 0
             IN  [correlation |-> IF numerator > 0 THEN thousandths ELSE 0 - thousandths,
                  strength |-> IF Against(a, b, c, d, 7, 10) >= 0 THEN "strong"
                               ELSE IF Against(a, b, c, d, 4, 10) >= 0 THEN "moderate"
                               ELSE "weak"]
      Lowest(numerator, a1, c1, b1, d1) ==
        Rounded(numerator, a1 \div GCD(a1, d1), b1 \div GCD(b1, c1),
                c1 \div GCD(b1, c1), d1 \div GCD(a1, d1))
      Lower(numerator, size, spread_x, spread_y) ==
        IF spread_x <= 0 \/ spread_y <= 0 THEN None
        ELSE Lowest(numerator, size \div GCD(size, spread_x), spread_x \div GCD(size, spread_x),
                    size \div GCD(size, spread_y), spread_y \div GCD(size, spread_y))
      Sized(numerator, spread_x, spread_y) ==
        Lower(numerator, IF numerator < 0 THEN 0 - numerator ELSE numerator,
              spread_x, spread_y)
      Summed(n, sum_x, sum_y, sum_xy, sum_x2, sum_y2) ==
        Sized(n * sum_xy - sum_x * sum_y, n * sum_x2 - sum_x * sum_x,
              n * sum_y2 - sum_y * sum_y)
      Paired(n) ==
        Summed(n, Sum([i \in 1..n |-> pairs[i][1]]), Sum([i \in 1..n |-> pairs[i][2]]),
               Sum([i \in 1..n |-> pairs[i][1] * pairs[i][2]]),
               Sum([i \in 1..n |-> pairs[i][1] * pairs[i][1]]),
               Sum([i \in 1..n |-> pairs[i][2] * pairs[i][2]]))
  IN  IF Len(pairs) < 5 THEN None ELSE Paired(Len(pairs))

\* correlations of analyze_correlations: a Correlation for every factor whose
\* coefficient is not None, the largest abs(correlation) first (a stable sort)
Correlations(readings, lifestyle) ==
  LET factors ==
        <<<<"Sodium Intake", "sodium_mg">>, <<"Physical Activity", "physical_activity">>,
          <<"Sleep Duration", "sleep_duration">>, <<"Stress Level", "stress_level">>,
          <<"Body Weight", "weight">>, <<"Water Intake", "water_intake">>,
          <<"Caffeine Intake", "caffeine_intake">>,
          <<"Alcohol Consumption", "alcohol_consumption">>,
          <<"Diastolic BP", "diastolic">>, <<"Heart Rate", "pulse">>>>
      Correlation(factor1, corr_value) ==
        [factor1 |-> factor1, factor2 |-> "Systolic BP",
         correlation |-> corr_value.correlation, strength |-> corr_value.strength,
         direction |-> IF corr_value.correlation > 0 THEN "positive" ELSE "negative"]
      Size(x) == IF x.correlation < 0 THEN 0 - x.correlation ELSE x.correlation
      RECURSIVE Insert(_, _)
      Insert(sorted, x) ==
        IF sorted = <<>> THEN <<x>>
        ELSE IF Size(Head(sorted)) >= Size(x) THEN <<Head(sorted)>> \o Insert(Tail(sorted), x)
        ELSE <<x>> \o sorted
      Added(sorted, factor1, corr_value) ==
        IF corr_value = None THEN sorted ELSE Insert(sorted, Correlation(factor1, corr_value))
      RECURSIVE Collect(_, _)
      Collect(i, sorted) ==
        IF i > Len(factors) THEN sorted
        ELSE Collect(i + 1, Added(sorted, factors[i][1],
                                  Pearson(FactorPairs(readings, lifestyle, factors[i][2]))))
  IN  Collect(1, <<>>)

\* analyze_correlations
AnalyzeCorrelations(patient_id, days, D) ==
  IF ~D.patient.exists
  THEN Raised(PatientNotFoundError(patient_id), <<"patient">>)
  ELSE IF Len(D.readings) < min_readings_for_analysis
  THEN Raised(ReadingsError(<<"Not enough data for correlation analysis">>, Len(D.readings)),
              <<"patient", "readings", "lifestyle">>)
  ELSE IF DailyDataDays(D.readings, D.lifestyle) < 5
  THEN Raised(InsufficientDataError(
                <<"Not enough daily data points for correlation analysis">>,
                [days_with_data |-> DailyDataDays(D.readings, D.lifestyle),
                 minimum_required |-> 5]),
              <<"patient", "readings", "lifestyle">>)
  ELSE Returned([tag |-> "CorrelationAnalysis",
                 correlations |-> Correlations(D.readings, D.lifestyle)],
                <<"patient", "readings", "lifestyle">>)

\* generate_forecast: an unknown metric is replaced by systolic
ForecastMetric(metric) ==
  IF metric \in {"systolic", "diastolic", "pulse"} THEN metric ELSE "systolic"

MetricName(metric) ==
  CASE metric = "systolic" -> "Systolic BP"
    [] metric = "diastolic" -> "Diastolic BP"
    [] metric = "pulse" -> "Heart Rate"

\* len(_build_historical_data(readings, metric)): the days with a value
HistoricalDays(readings, metric) ==
  Cardinality({readings[i].day :
                 i \in {j \in 1..Len(readings) : readings[j][metric] # NoneInt}})

\* the history window generate_forecast fetches
history_days == 60

\* generate_forecast counting the readings before it resolves the patient
GenerateForecastReadingsFirst(patient_id, metric_in, forecast_days, D) ==
  IF Len(D.readings) < min_readings_for_analysis
  THEN Raised(ReadingsError(<<"Not enough readings for forecast (have {}, need {})",
                              Len(D.readings), min_readings_for_analysis>>,
                            Len(D.readings)),
              <<"patient", "readings">>)
  ELSE IF ~D.patient.exists
  THEN Raised(PatientNotFoundError(patient_id), <<"patient", "readings">>)
  ELSE Returned([tag |-> "TimeSeriesForecast", metric |-> MetricName(ForecastMetric(metric_in)),
                 historical |-> HistoricalData(D.readings, ForecastMetric(metric_in)),
                 forecast |-> ForecastPoints(HistoricalData(D.readings,
                                                            ForecastMetric(metric_in)),
                                             forecast_days, ForecastMetric(metric_in))],
                <<"patient", "readings">>)

\* generate_forecast leaving out the first forecast day
GenerateForecastFromSecondDay(patient_id, metric_in, forecast_days, D) ==
  LET out == GenerateForecastReadingsFirst(patient_id, metric_in, forecast_days, D)
  IN  IF out.tag = "raised" THEN out
      ELSE Returned([out.value EXCEPT !.forecast = Tail(@)], out.fetches)

GenerateForecast(patient_id, metric_in, forecast_days, D) ==
  LET metric == ForecastMetric(metric_in)
  IN  IF ~D.patient.exists
      THEN Raised(PatientNotFoundError(patient_id), <<"patient">>)
      ELSE IF Len(D.readings) < min_readings_for_analysis
      THEN Raised(ReadingsError(<<"Not enough readings for forecast (have {}, need {})",
                                  Len(D.readings), min_readings_for_analysis>>,
                                Len(D.readings)),
                  <<"patient", "readings">>)
      ELSE IF HistoricalDays(D.readings, metric) < 7
      THEN Raised(InsufficientDataError(
                    <<"Not enough daily data points for forecast">>,
                    [days_with_data |-> HistoricalDays(D.readings, metric),
                     minimum_required |-> 7]),
                  <<"patient", "readings">>)
      ELSE Returned([tag |-> "TimeSeriesForecast", metric |-> MetricName(metric),
                     historical |-> HistoricalData(D.readings, metric),
                     forecast |-> ForecastPoints(HistoricalData(D.readings, metric),
                                                 forecast_days, metric)],
                    <<"patient", "readings">>)

----------------------------------------------------------------------------
(* The external store and the Database queries (app/utils/database.py).   *)
(* Days are counted from the day of the request: 0 is today, -1 yesterday. *)

Profile(age, history) == [exists |-> TRUE, age |-> age, medical_history |-> history]

DataSet(patient, readings, medications, medication_logs, lifestyle) ==
  [patient |-> patient, readings |-> readings, medications |-> medications,
   medication_logs |-> medication_logs, lifestyle |-> lifestyle]

\* n readings of the same values, one every step days, newest first
RepeatReadings(n, step, sys, dia, pulse) ==
  [i \in 1..n |-> Reading(sys, dia, pulse, 0 - step * (i - 1), NoneStr, NoneStr)]

\* The data sets a patient of the store can have:
\*  1: three readings in the last three days
\*  2: seven daily readings of 135/86, nothing else recorded
\*  3: nine readings of 120/78 taken every other day, a medication taken
\*     regularly and a lifestyle entry of today
DataSets ==
  <<DataSet(Profile(50, "Hypertension"), RepeatReadings(3, 1, 120, 78, 70), <<>>, <<>>, <<>>),
    DataSet(Profile(50, "Hypertension"), RepeatReadings(7, 1, 135, 86, NoneInt), <<>>, <<>>, <<>>),
    DataSet(Profile(50, "Hypertension"), RepeatReadings(9, 2, 120, 78, 70),
            <<Medication("Lisinopril", TRUE, 96)>>, <<>>,
            <<Lifestyle(0, 45, "low", 75, "low")>>)>>

DataSetIds == 0..Len(DataSets)

\* Database.fetch_patient
FetchPatient(ds) == IF ds = 0 THEN NoPatient ELSE DataSets[ds].patient

\* Database.fetch_blood_pressure_readings(patient_id, days)
FetchReadings(ds, days) ==
  IF ds = 0 THEN <<>>
  ELSE SelectSeq(DataSets[ds].readings, LAMBDA r : 0 - days <= r.day /\ r.day <= 0)

\* Database.fetch_medications(patient_id): active_only
FetchMedications(ds) ==
  IF ds = 0 THEN <<>> ELSE SelectSeq(DataSets[ds].medications, LAMBDA m : m.active)

\* Database.fetch_medication_logs(patient_id, days)
FetchMedicationLogs(ds, days) ==
  IF ds = 0 THEN <<>>
  ELSE SelectSeq(DataSets[ds].medication_logs, LAMBDA l : 0 - days <= l.scheduled_day)

\* Database.fetch_lifestyle_entries(patient_id, days)
FetchLifestyle(ds, days) ==
  IF ds = 0 THEN <<>>
  ELSE SelectSeq(DataSets[ds].lifestyle, LAMBDA e : 0 - days <= e.entry_day)

\* what the queries of a routine called with window days return
Fetched(ds, days) ==
  [patient |-> FetchPatient(ds), readings |-> FetchReadings(ds, days),
   medications |-> FetchMedications(ds),
   medication_logs |-> FetchMedicationLogs(ds, days),
   lifestyle |-> FetchLifestyle(ds, days)]

----------------------------------------------------------------------------
(* Spec: the transport handlers (app/routers/analysis.py) *)

\* requests handled in one behaviour
MaxRequests == 2

NoRange == [tag |-> "None"]

TimeRange(start_date, end_date) ==
  [tag |-> "range", start_date |-> start_date, end_date |-> end_date]

\* days = (end_date - start_date).days when both dates are given
DaysOf(time_range) ==
  IF time_range.tag = "range"
  THEN time_range.end_date - time_range.start_date
  ELSE default_analysis_days

Response(status_code, body) == [status_code |-> status_code, body |-> body]

\* handle_analysis_error (app/main.py)
ErrorResponse(exc) ==
  Response(exc.status_code,
           [error |-> [code |-> exc.code, message |-> exc.message, details |-> exc.details]])

\* an exception that is no AnalysisError, with the text str(e) gives
Exception(message) == [tag |-> "exception", message |-> message]

\* A query of the Database that raises during a request, and the text of the
\* exception; the query "none" when every query answers
Outage(query, message) == [query |-> query, message |-> message]

NoOutage == Outage("none", "")

\* The outcome of a routine during an outage: the first call of the query
\* raises (fetch_patient prints and re-raises, the other queries do not catch)
\* and the routine, which catches nothing, ends with that exception
WithOutage(out, outage) ==
  LET raising == {i \in 1..Len(out.fetches) : out.fetches[i] = outage.query}
      first == CHOOSE i \in raising : \A j \in raising : i <= j
  IN  IF raising = {} THEN out
      ELSE Raised(Exception(outage.message), SubSeq(out.fetches, 1, first))

\* What a handler answers when its routine raises: an AnalysisError is raised
\* again and answered by handle_analysis_error; any other exception becomes
\* HTTPException(status_code=500, detail=str(e)), which the framework answers
\* with the body {"detail": detail}
RaisedResponse(exc) ==
  IF exc.tag = "error" THEN ErrorResponse(exc)
  ELSE Response(500, [detail |-> exc.message])

\* the cache lookup of a handler
Lookup(patient_id, analysis_type, kwargs) ==
  CacheGetValue(cache, patient_id, analysis_type, kwargs, now)

\* a handler that stores what its routine left, whether it returned or raised
HandleStoringFailures(patient_id, analysis_type, kwargs, time_range, out, stored, fromCache, fromRoutine) ==
  LET key == MakeKey(patient_id, analysis_type, kwargs)
      cached == Lookup(patient_id, analysis_type, kwargs)
      c1 == CacheAfterGet(cache, patient_id, analysis_type, kwargs, now)
      u1 == IF cached # None THEN UsedTouch(used, key) ELSE used
      c2 == CacheAfterSet(c1, patient_id, analysis_type, stored, kwargs, now)
  IN  /\ nreq < MaxRequests
      /\ client = [patient_id |-> patient_id, type |-> analysis_type]
      /\ nreq' = nreq + 1
      /\ IF Truthy(cached)
         THEN /\ cache' = c1
              /\ used' = u1
              /\ last' = [Outcome("request", patient_id, analysis_type, kwargs, TRUE,
                                  Response(200, fromCache), <<>>)
                          EXCEPT !.cached = cached, !.range = time_range]
         ELSE IF out.tag = "raised"
         THEN /\ cache' = c2
              /\ used' = u1
              /\ last' = [Outcome("request", patient_id, analysis_type, kwargs, FALSE,
                                  RaisedResponse(out.value), out.fetches)
                          EXCEPT !.cached = cached, !.range = time_range,
                                 !.stale = Stale(used, key, now),
                                 !.fault = (out.value.tag = "exception")]
         ELSE /\ cache' = c2
              /\ used' = UsedPrune(UsedSet(u1, key, now, stored, Response(200, fromRoutine),
                                           db[patient_id]), c2)
              /\ last' = [Outcome("request", patient_id, analysis_type, kwargs, FALSE,
                                  Response(200, fromRoutine), out.fetches)
                          EXCEPT !.cached = cached, !.range = time_range,
                                 !.stale = Stale(used, key, now),
                                 !.evicted = Evicted(cache, c2, now)]
      /\ UNCHANGED <<now, db, client, inp, run1, run2, calls>>

\* the body of a handler: look up, return the cached value when it is true,
\* else run the routine, store its artifact and return it. out is the outcome
\* of the routine, stored what is stored for its artifact, fromCache the
\* response made of the cached value and fromRoutine the one made of the
\* artifact.
Handle(patient_id, analysis_type, kwargs, time_range, out, stored, fromCache, fromRoutine) ==
  LET key == MakeKey(patient_id, analysis_type, kwargs)
      cached == Lookup(patient_id, analysis_type, kwargs)
      c1 == CacheAfterGet(cache, patient_id, analysis_type, kwargs, now)
      u1 == IF cached # None THEN UsedTouch(used, key) ELSE used
      c2 == CacheAfterSet(c1, patient_id, analysis_type, stored, kwargs, now)
  IN  /\ nreq < MaxRequests
      /\ client = [patient_id |-> patient_id, type |-> analysis_type]
      /\ nreq' = nreq + 1
      /\ IF Truthy(cached)
         THEN /\ cache' = c1
              /\ used' = u1
              /\ last' = [Outcome("request", patient_id, analysis_type, kwargs, TRUE,
                                  Response(200, fromCache), <<>>)
                          EXCEPT !.cached = cached, !.range = time_range]
         ELSE IF out.tag = "raised"
         THEN /\ cache' = c1
              /\ used' = u1
              /\ last' = [Outcome("request", patient_id, analysis_type, kwargs, FALSE,
                                  RaisedResponse(out.value), out.fetches)
                          EXCEPT !.cached = cached, !.range = time_range,
                                 !.stale = Stale(used, key, now),
                                 !.fault = (out.value.tag = "exception")]
         ELSE /\ cache' = c2
              /\ used' = UsedPrune(UsedSet(u1, key, now, stored, Response(200, fromRoutine),
                                           db[patient_id]), c2)
              /\ last' = [Outcome("request", patient_id, analysis_type, kwargs, FALSE,
                                  Response(200, fromRoutine), out.fetches)
                          EXCEPT !.cached = cached, !.range = time_range,
                                 !.stale = Stale(used, key, now),
                                 !.evicted = Evicted(cache, c2, now)]
      /\ UNCHANGED <<now, db, client, inp, run1, run2, calls>>

DaysKwargs(days) == <<<<"days", days>>>>

\* [m.dict() for m in models]
ListOfDicts(v) == PyList([i \in 1..Len(v.items) |-> ModelDict(v.items[i])])

\* the models a response model validates from a list of dicts
ModelsOfDicts(v) == [i \in 1..Len(v.items) |-> ParseModel(v.items[i])]

InsightsResponse(insights) == [tag |-> "InsightsResponse", insights |-> insights]

TrendPredictionsResponse(predictions) ==
  [tag |-> "TrendPredictionsResponse", predictions |-> predictions]

\* POST /insights
GetInsights(patient_id, time_range, seed, outage) ==
  LET days == DaysOf(time_range)
      cached == Lookup(patient_id, "insights", DaysKwargs(days))
      out == WithOutage(GenerateInsights(patient_id, days, Fetched(db[patient_id], days), now, seed),
                        outage)
  IN  Handle(patient_id, "insights", DaysKwargs(days), time_range, out,
             IF out.tag = "ok" THEN ListOfDicts(out.value) ELSE None,
             IF Truthy(cached) THEN InsightsResponse(ModelsOfDicts(cached)) ELSE None,
             IF out.tag = "ok" THEN InsightsResponse(out.value.items) ELSE None)

\* POST /risk-assessment
GetRiskAssessment(patient_id, time_range, outage) ==
  LET days == DaysOf(time_range)
      cached == Lookup(patient_id, "risk_assessment", DaysKwargs(days))
      out == WithOutage(CalculateRiskAssessment(patient_id, days, Fetched(db[patient_id], days)),
                        outage)
  IN  Handle(patient_id, "risk_assessment", DaysKwargs(days), time_range, out,
             IF out.tag = "ok" THEN ModelDict(out.value) ELSE None,
             IF Truthy(cached) THEN ParseModel(cached) ELSE None,
             IF out.tag = "ok" THEN out.value ELSE None)

\* POST /predictions
GetPredictions(patient_id, time_range, outage) ==
  LET days == DaysOf(time_range)
      cached == Lookup(patient_id, "predictions", DaysKwargs(days))
      out == WithOutage(CalculatePredictions(patient_id, days, Fetched(db[patient_id], days)),
                        outage)
  IN  Handle(patient_id, "predictions", DaysKwargs(days), time_range, out,
             IF out.tag = "ok" THEN ListOfDicts(out.value) ELSE None,
             IF Truthy(cached) THEN TrendPredictionsResponse(ModelsOfDicts(cached)) ELSE None,
             IF out.tag = "ok" THEN TrendPredictionsResponse(out.value.items) ELSE None)

\* POST /health-score
GetHealthScore(patient_id, time_range, outage) ==
  LET days == DaysOf(time_range)
      cached == Lookup(patient_id, "health_score", DaysKwargs(days))
      out == WithOutage(CalculateHealthScore(patient_id, days, Fetched(db[patient_id], days)),
                        outage)
  IN  Handle(patient_id, "health_score", DaysKwargs(days), time_range, out,
             IF out.tag = "ok" THEN ModelDict(out.value) ELSE None,
             IF Truthy(cached) THEN ParseModel(cached) ELSE None,
             IF out.tag = "ok" THEN out.value ELSE None)

\* POST /patterns
GetPatterns(patient_id, time_range, outage) ==
  LET days == DaysOf(time_range)
      cached == Lookup(patient_id, "patterns", DaysKwargs(days))
      out == WithOutage(AnalyzePatterns(patient_id, days, Fetched(db[patient_id], days)),
                        outage)
  IN  Handle(patient_id, "patterns", DaysKwargs(days), time_range, out,
             IF out.tag = "ok" THEN ModelDict(out.value) ELSE None,
             IF Truthy(cached) THEN ParseModel(cached) ELSE None,
             IF out.tag = "ok" THEN out.value ELSE None)

\* POST /correlations
GetCorrelations(patient_id, time_range, outage) ==
  LET days == DaysOf(time_range)
      cached == Lookup(patient_id, "correlations", DaysKwargs(days))
      out == WithOutage(AnalyzeCorrelations(patient_id, days, Fetched(db[patient_id], days)),
                        outage)
  IN  Handle(patient_id, "correlations", DaysKwargs(days), time_range, out,
             IF out.tag = "ok" THEN ModelDict(out.value) ELSE None,
             IF Truthy(cached) THEN ParseModel(cached) ELSE None,
             IF out.tag = "ok" THEN out.value ELSE None)

\* POST /forecast
GetForecast(patient_id, metric, forecast_days, outage) ==
  LET kwargs == <<<<"metric", metric>>, <<"days", forecast_days>>>>
      cached == Lookup(patient_id, "forecast", kwargs)
      out == WithOutage(GenerateForecast(patient_id, metric, forecast_days,
                                         Fetched(db[patient_id], history_days)),
                        outage)
  IN  Handle(patient_id, "forecast", kwargs, NoRange, out,
             IF out.tag = "ok" THEN ModelDict(out.value) ELSE None,
             IF Truthy(cached) THEN ParseModel(cached) ELSE None,
             IF out.tag = "ok" THEN out.value ELSE None)

\* the external store changes the records of a patient
DataChange(patient_id, ds) ==
  /\ db[patient_id] # ds
  /\ db' = [db EXCEPT ![patient_id] = ds]
  /\ last' = NoOutcome
  /\ UNCHANGED <<cache, now, used, client, nreq, inp, run1, run2, calls>>

\* the inputs the requests of the model draw from
Uuids == {"u1", "u2"}

\* no time_range, the last seven days, and the seven days before those
Ranges == {NoRange, TimeRange(-7, 0), TimeRange(-14, -7)}

ForecastMetrics == {"systolic", "bpm"}

ForecastDays == {30}

\* the store answers every query, or one query raises
Outages ==
  {NoOutage, Outage("patient", "connection refused"), Outage("readings", "JWT expired")}

\* A behaviour of Spec is the session of one client, which sends up to
\* MaxRequests requests to one endpoint for one patient while time passes, the
\* records of that patient change and patients are invalidated; the store
\* holds the records of that patient.
Init ==
  /\ cache = [created |-> FALSE, items |-> <<>>]
  /\ now = 0
  /\ used = <<>>
  /\ last = NoOutcome
  /\ client \in [patient_id : Patients, type : AnalysisTypes]
  /\ db \in {d \in [Patients -> DataSetIds] : \A p \in Patients : p # client.patient_id => d[p] = 0}
  /\ nreq = 0
  /\ inp = NoInput
  /\ run1 = None
  /\ run2 = None
  /\ calls = <<>>

Next ==
  \/ \E p \in Patients, tr \in Ranges, u \in Uuids, o \in Outages : GetInsights(p, tr, u, o)
  \/ \E p \in Patients, tr \in Ranges, o \in Outages : GetRiskAssessment(p, tr, o)
  \/ \E p \in Patients, tr \in Ranges, o \in Outages : GetPredictions(p, tr, o)
  \/ \E p \in Patients, tr \in Ranges, o \in Outages : GetHealthScore(p, tr, o)
  \/ \E p \in Patients, tr \in Ranges, o \in Outages : GetPatterns(p, tr, o)
  \/ \E p \in Patients, tr \in Ranges, o \in Outages : GetCorrelations(p, tr, o)
  \/ \E p \in Patients, m \in ForecastMetrics, d \in ForecastDays, o \in Outages :
        GetForecast(p, m, d, o)
  \/ \E p \in Patients : Invalidate(p)
  \/ \E ds \in DataSetIds : nreq < MaxRequests /\ DataChange(client.patient_id, ds)
  \/ nreq < MaxRequests /\ Tick

Spec == Init /\ [][Next]_vars


----------------------------------------------------------------------------
(* SpecConcurrent: handlers interleaved. A handler is a coroutine of one    *)
(* event loop; AnalysisCache.get and AnalysisCache.set contain no await and *)
(* run to their end, and the handler can be suspended only where it awaits  *)
(* its routine, whose Database queries are the external data fetch. A call  *)
(* therefore takes three steps: the lookup, the fetch, and the computation  *)
(* with the store.                                                          *)

CallIds == {1, 2}

\* the endpoints the concurrent calls go to
ConcurrentTypes == {"risk_assessment", "health_score"}

ConcurrentRanges == {NoRange, TimeRange(-7, 0)}

\* the patient the concurrent calls are about
ConcurrentPatients == {"p1"}

\* pc: "idle" before the request, "fetching" after a lookup that missed,
\* "fetched" once the queries have answered, "done" after the response;
\* data the data set the queries read; stored whether the call set the
\* cache; rank the position of its response among the responses; outdated
\* whether the patient was invalidated after its fetch; raced whether a call
\* for the same key was between its lookup and its store when this one stored
IdleCall ==
  [pc |-> "idle", patient_id |-> "", type |-> "", days |-> 0, data |-> 0,
   result |-> None, hit |-> FALSE, stored |-> FALSE, rank |-> 0,
   outdated |-> FALSE, raced |-> FALSE]

CallKey(call) == MakeKey(call.patient_id, call.type, DaysKwargs(call.days))

Responded == Cardinality({c \in CallIds : calls[c].pc = "done"})

\* the routine a handler awaits
RoutineOf(analysis_type, patient_id, days, D) ==
  IF analysis_type = "risk_assessment"
  THEN CalculateRiskAssessment(patient_id, days, D)
  ELSE CalculateHealthScore(patient_id, days, D)

\* get_risk_assessment / get_health_score up to the await: days, the lookup,
\* and the response when the cached value is true
BeginCall(c, patient_id, analysis_type, time_range) ==
  LET days == DaysOf(time_range)
      kwargs == DaysKwargs(days)
      key == MakeKey(patient_id, analysis_type, kwargs)
      cached == Lookup(patient_id, analysis_type, kwargs)
      response == Response(200, ParseModel(cached))
  IN  /\ calls[c].pc = "idle"
      /\ cache' = CacheAfterGet(cache, patient_id, analysis_type, kwargs, now)
      /\ used' = IF cached # None THEN UsedTouch(used, key) ELSE used
      /\ nreq' = nreq + 1
      /\ IF Truthy(cached)
         THEN /\ calls' = [calls EXCEPT ![c] =
                             [IdleCall EXCEPT !.pc = "done", !.patient_id = patient_id,
                                              !.type = analysis_type, !.days = days,
                                              !.result = response, !.hit = TRUE,
                                              !.rank = Responded + 1]]
              /\ last' = [Outcome("request", patient_id, analysis_type, kwargs, TRUE,
                                  response, <<>>)
                          EXCEPT !.cached = cached, !.range = time_range]
         ELSE /\ calls' = [calls EXCEPT ![c] =
                             [IdleCall EXCEPT !.pc = "fetching", !.patient_id = patient_id,
                                              !.type = analysis_type, !.days = days]]
              /\ last' = [Outcome("get", patient_id, analysis_type, kwargs, FALSE, cached, <<>>)
                          EXCEPT !.cached = cached, !.range = time_range]
      /\ UNCHANGED <<now, db, client, inp, run1, run2>>

\* the Database queries of the awaited routine answer from the store
FetchCall(c) ==
  /\ calls[c].pc = "fetching"
  /\ calls' = [calls EXCEPT ![c].pc = "fetched", ![c].data = db[calls[c].patient_id]]
  /\ last' = NoOutcome
  /\ UNCHANGED <<cache, now, used, db, client, nreq, inp, run1, run2>>

\* the routine computes from the fetched records and the handler stores the
\* artifact and answers, or the routine raises and the handler answers
FinishCall(c) ==
  LET call == calls[c]
      kwargs == DaysKwargs(call.days)
      key == CallKey(call)
      out == RoutineOf(call.type, call.patient_id, call.days, Fetched(call.data, call.days))
      stored == ModelDict(out.value)
      c2 == CacheAfterSet(cache, call.patient_id, call.type, stored, kwargs, now)
  IN  /\ call.pc = "fetched"
      /\ IF out.tag = "raised"
         THEN /\ calls' = [calls EXCEPT ![c].pc = "done",
                                        ![c].result = RaisedResponse(out.value),
                                        ![c].rank = Responded + 1]
              /\ last' = Outcome("request", call.patient_id, call.type, kwargs, FALSE,
                                 RaisedResponse(out.value), out.fetches)
              /\ UNCHANGED <<cache, used>>
         ELSE /\ calls' = [calls EXCEPT ![c].pc = "done",
                                        ![c].result = Response(200, out.value),
                                        ![c].stored = TRUE,
                                        ![c].rank = Responded + 1,
                                        ![c].raced =
                                           \E o \in CallIds \ {c} :
                                              /\ calls[o].pc \in {"fetching", "fetched"}
                                              /\ CallKey(calls[o]) = key]
              /\ cache' = c2
              /\ used' = UsedPrune(UsedSet(used, key, now, stored, Response(200, out.value),
                                           call.data), c2)
              /\ last' = [Outcome("request", call.patient_id, call.type, kwargs, FALSE,
                                  Response(200, out.value), out.fetches)
                          EXCEPT !.evicted = Evicted(cache, c2, now)]
      /\ UNCHANGED <<now, db, client, nreq, inp, run1, run2>>

\* invalidate_patient_cache: AnalysisCache.invalidate(patient_id), between
\* the steps of the calls in flight
InvalidateCache(patient_id) ==
  LET c == CacheAfterInvalidate(cache, patient_id, now)
  IN  /\ cache' = c
      /\ used' = UsedPrune(used, c)
      /\ last' = [Outcome("invalidate", patient_id, "", NoKwargs, FALSE, None, <<>>)
                  EXCEPT !.evicted = Evicted(cache, c, now)]
      /\ calls' = [i \in CallIds |->
                     IF calls[i].patient_id = patient_id /\ calls[i].pc \in {"fetched", "done"}
                     THEN [calls[i] EXCEPT !.outdated = TRUE]
                     ELSE calls[i]]
      /\ UNCHANGED <<now, db, client, nreq, inp, run1, run2>>

\* the data sets the store holds for a patient while requests are in flight
ConcurrentDataSets == {2, 3}

InitConcurrent ==
  /\ cache = [created |-> FALSE, items |-> <<>>]
  /\ now = 0
  /\ used = <<>>
  /\ last = NoOutcome
  /\ db \in {d \in [Patients -> {0} \cup ConcurrentDataSets] :
               \A p \in Patients : d[p] # 0 <=> p \in ConcurrentPatients}
  /\ client = NoClient
  /\ nreq = 0
  /\ inp = NoInput
  /\ run1 = None
  /\ run2 = None
  /\ calls = [c \in CallIds |-> IdleCall]

NextConcurrent ==
  \/ \E c \in CallIds, p \in ConcurrentPatients, t \in ConcurrentTypes, tr \in ConcurrentRanges :
        BeginCall(c, p, t, tr)
  \/ \E c \in CallIds : FetchCall(c)
  \/ \E c \in CallIds : FinishCall(c)
  \/ \E p \in Patients : InvalidateCache(p)
  \/ \E p \in ConcurrentPatients, ds \in ConcurrentDataSets :
        (\E c \in CallIds : calls[c].pc # "done") /\ DataChange(p, ds)

SpecConcurrent == InitConcurrent /\ [][NextConcurrent]_vars
----------------------------------------------------------------------------
(* SpecRoutines: the seven routines as functions of what their queries      *)
(* return. The input of a behaviour is drawn at the start; the routine is   *)
(* then run on it twice, each run at its own time and with its own state of *)
(* the uuid generator.                                                      *)

\* n daily readings, newest first: the latest 14 alternate between 190/125
\* in the morning and 150/95 in the evening, the older ones are 140/88
SwingReadings(n) ==
  [i \in 1..n |->
     IF i > 14 THEN Reading(140, 88, 70, 1 - i, NoneStr, NoneStr)
     ELSE IF i % 2 = 1 THEN Reading(190, 125, 72, 1 - i, "morning", "sitting")
     ELSE Reading(150, 95, 72, 1 - i, "evening", "sitting")]

ReadingCounts == {0, 3, 6, 7}

RoutineReadings ==
  {RepeatReadings(n, 1, 120, 78, 70) : n \in ReadingCounts}
  \cup {RepeatReadings(n, 1, 135, 86, NoneInt) : n \in ReadingCounts}
  \cup {SwingReadings(n) : n \in {7, 16}}

RoutineMedications ==
  {<<>>, <<Medication("Lisinopril", TRUE, 96)>>,
   <<Medication("Lisinopril", TRUE, 60), Medication("Amlodipine", TRUE, NoneInt)>>}

RoutineLifestyle ==
  {<<>>, <<Lifestyle(0, 45, "low", 75, "low")>>, <<Lifestyle(0, 10, "high", 55, "severe")>>}

\* what the queries of a routine can return
RoutineData ==
  {DataSet(NoPatient, <<>>, <<>>, <<>>, <<>>)}
  \cup {DataSet(Profile(50, "Hypertension"), r, m, <<>>, l) :
          r \in RoutineReadings, m \in RoutineMedications, l \in RoutineLifestyle}

\* what the queries of the risk assessment can return: data that puts the
\* score on both sides of each boundary of the risk levels and above 100
RiskData ==
  LET readings ==
        {<<>>, RepeatReadings(7, 1, 120, 78, 70), RepeatReadings(7, 1, 135, 86, 70),
         RepeatReadings(7, 1, 150, 95, 70), RepeatReadings(7, 1, 185, 122, 70),
         SwingReadings(7)}
      medications ==
        {<<>>, <<Medication("Lisinopril", TRUE, 60)>>, <<Medication("Lisinopril", TRUE, 0)>>,
         <<Medication("Lisinopril", TRUE, 80)>>, <<Medication("Lisinopril", TRUE, 90)>>,
         <<Medication("Lisinopril", TRUE, 60), Medication("Amlodipine", TRUE, NoneInt)>>,
         <<Medication("Lisinopril", FALSE, 20), Medication("Amlodipine", TRUE, 96)>>}
      lifestyle ==
        {<<>>, <<Lifestyle(0, 45, "low", 75, "low")>>,
         <<Lifestyle(0, 20, "moderate", 70, "high")>>,
         <<Lifestyle(0, 10, "high", 55, "severe")>>,
         <<Lifestyle(0, 10, "high", 55, "severe")
           @@ [alcohol_consumption |-> 3, smoking_status |-> "current"]>>}
      patients ==
        {Profile(30, ""), Profile(50, "Hypertension"), Profile(58, "Type 2 Diabetes"),
         Profile(70, "Diabetes, chronic kidney disease, heart failure")}
  IN  {DataSet(p, r, m, <<>>, l) :
         p \in patients, r \in readings, m \in medications, l \in lifestyle}

\* what the queries of the health score can return
HealthData ==
  LET readings ==
        {<<>>, RepeatReadings(5, 1, 120, 78, 70), RepeatReadings(7, 1, 135, 86, NoneInt),
         RepeatReadings(6, 1, 150, 95, 70), SwingReadings(7), SwingReadings(16)}
      medications ==
        {<<>>, <<Medication("Lisinopril", TRUE, 96)>>,
         <<Medication("Lisinopril", TRUE, 60), Medication("Amlodipine", TRUE, 91)>>,
         <<Medication("Lisinopril", TRUE, NoneInt)>>,
         <<Medication("Lisinopril", FALSE, 20)>>}
      lifestyle ==
        {<<>>, <<Lifestyle(0, 45, "low", 75, "low")>>,
         <<Lifestyle(0, 10, "high", 55, "severe"), Lifestyle(-1, 20, "moderate", 65, "high")>>,
         <<Lifestyle(0, NoneInt, NoneStr, NoneInt, NoneStr)
           @@ [diet_quality |-> "healthy", water_intake |-> 8, sleep_quality |-> "good"]>>}
  IN  {DataSet(Profile(50, "Hypertension"), r, m, <<>>, l) :
         r \in readings, m \in medications, l \in lifestyle}

\* what the queries of the health score can return for a window of 0 days,
\* which starts and ends at the time of the query: nothing, or the records
\* dated at that time
HealthDataOfNow ==
  LET readings ==
        {<<>>, RepeatReadings(1, 0, 120, 78, 70),
         <<Reading(150, 95, 70, 0, "morning", NoneStr)>>}
      medications == {<<>>, <<Medication("Lisinopril", TRUE, 60)>>}
      lifestyle == {<<>>, <<Lifestyle(0, 10, "high", 55, "severe")>>}
  IN  {DataSet(Profile(50, "Hypertension"), r, m, <<>>, l) :
         r \in readings, m \in medications, l \in lifestyle}

\* n readings on consecutive days, newest first. From the oldest reading on
\* the systolic value starts at first, changes by change a day and swings by
\* swing above, below, below and above that line in turn; the diastolic value
\* is 50 lower; the newest pulses readings carry a pulse of 70
TrendReadings(n, first, change, swing, pulses) ==
  [i \in 1..n |->
     LET k == n - i
         systolic == first + change * k
                     + (IF k % 4 \in {0, 3} THEN swing ELSE 0 - swing)
     IN  Reading(systolic, systolic - 50, IF i <= pulses THEN 70 ELSE NoneInt,
                 0 - (i - 1), NoneStr, NoneStr)]

\* what the queries of the predictions can return: falling and rising series
\* inside and at the edges of the plausible ranges, constant series inside
\* and outside them, and series with scatter
PredictionData ==
  {DataSet(Profile(50, "Hypertension"), r, <<>>, <<>>, <<>>) :
     r \in {TrendReadings(7, 126, 0 - 1, 0, 7), TrendReadings(10, 129, 0 - 1, 0, 4),
            TrendReadings(30, 150, 0 - 1, 0, 30), TrendReadings(7, 83, 0 - 1, 0, 5),
            TrendReadings(7, 120, 1, 0, 7), TrendReadings(7, 197, 1, 0, 7),
            TrendReadings(16, 120, 2, 2, 16), TrendReadings(8, 130, 0, 10, 8),
            RepeatReadings(9, 1, 150, 95, 70), RepeatReadings(7, 1, 210, 135, 35)}}

\* what the queries of the forecast can return: no patient, too few readings,
\* flat histories, exactly linear ones and histories that swing about a line
ForecastData ==
  {DataSet(NoPatient, <<>>, <<>>, <<>>, <<>>)}
  \cup {DataSet(Profile(50, "Hypertension"), r, <<>>, <<>>, <<>>) :
          r \in {RepeatReadings(n, 1, 120, 78, 70) : n \in ReadingCounts}
                \cup {RepeatReadings(60, 1, 150, 95, 70), RepeatReadings(7, 1, 210, 135, 35),
                      TrendReadings(8, 126, 0 - 1, 0, 8), TrendReadings(8, 130, 0, 10, 5),
                      TrendReadings(12, 180, 2, 4, 12), TrendReadings(8, 100, 0 - 3, 2, 8),
                      TrendReadings(12, 180, 2, 12, 12)}}

RoutineDays == {7, 30}

\* what the queries of the correlation analysis can return. The values of the
\* days are listed oldest first:
\*  1, 2: systolic falling (rising) by 1 a day for 8 days, sodium rising
\*  3: as 1 with sodium recorded on the 4 newest days only
\*  4: 8 days with scatter in every series, no pulse on two days, a stress
\*     level on 7 days
\*  5: 15 days of three readings each, the daily average falling by 1/3 a
\*     day after a first day of 220; sodium rising by 1 mg a day up to a last
\*     day of 5000 mg
CorrelationData ==
  LET Days(systolic, diastolic, pulse) ==
        LET n == Len(systolic)
        IN  [i \in 1..n |->
               Reading(systolic[n + 1 - i], diastolic[n + 1 - i], pulse[n + 1 - i],
                       0 - (i - 1), NoneStr, NoneStr)]
      DailyLifestyle(sodium, activity, sleep, stress) ==
        LET n == Len(sodium)
        IN  [i \in 1..n |->
               Lifestyle(0 - (i - 1), activity[n + 1 - i], NoneStr, sleep[n + 1 - i],
                         stress[n + 1 - i])
               @@ [sodium_mg |-> sodium[n + 1 - i]]]
      Absent(n) == [i \in 1..n |-> NoneInt]
      Unrated(n) == [i \in 1..n |-> NoneStr]
      rising_sodium ==
        DailyLifestyle([i \in 1..8 |-> 1400 + 100 * i], Absent(8), Absent(8), Unrated(8))
      thrice ==
        [i \in 1..45 |->
           LET k == 14 - (i - 1) \div 3
               sum == 393 - k
           IN  Reading(IF k = 0 THEN 220
                       ELSE sum \div 3 + (IF (i - 1) % 3 < sum % 3 THEN 1 ELSE 0),
                       80, 70, 0 - (i - 1) \div 3, NoneStr, NoneStr)]
      data ==
        {<<TrendReadings(8, 150, 0 - 1, 0, 8), rising_sodium>>,
         <<TrendReadings(8, 120, 1, 0, 8), rising_sodium>>,
         <<TrendReadings(8, 150, 0 - 1, 0, 8), Take(rising_sodium, 4)>>,
         <<Days(<<128, 135, 131, 142, 138, 146, 141, 150>>,
                <<82, 85, 80, 90, 88, 91, 87, 95>>,
                <<70, 72, NoneInt, 75, 71, 0, 74, 76>>),
           DailyLifestyle(<<1800, 2300, 2000, 2600, 2100, 2900, 2500, 3100>>,
                          <<40, 20, 35, 10, 30, 15, 25, 0>>,
                          <<75, 60, 70, 55, 80, 50, 65, 60>>,
                          <<"low", "high", "low", "severe", "moderate", "high", "moderate",
                            "extreme">>)>>,
         <<thrice,
           DailyLifestyle([i \in 1..15 |-> IF i = 15 THEN 5000 ELSE 1499 + i],
                          Absent(15), Absent(15), Unrated(15))>>}
  IN  {DataSet(Profile(50, "Hypertension"), d[1], <<>>, <<>>, d[2]) : d \in data}

\* Readings for the pattern analysis, newest first, two a day (morning and
\* evening) on consecutive days: the systolic value starts at base and is
\* raised in the morning, on Saturdays and Sundays, and when standing
\* (readings are taken standing and sitting in turn, two by two)
PatternReadings(n, base, morning_up, weekend_up, standing_up) ==
  [i \in 1..n |->
     LET day == 0 - ((i - 1) \div 2)
         systolic == base + (IF i % 2 = 1 THEN morning_up ELSE 0)
                          + (IF DayName(day) \in {"Saturday", "Sunday"} THEN weekend_up ELSE 0)
                          + (IF i % 4 \in {0, 1} THEN standing_up ELSE 0)
     IN  Reading(systolic, systolic - 45, 70, day,
                 IF i % 2 = 1 THEN "morning" ELSE "evening",
                 IF i % 4 \in {0, 1} THEN "standing" ELSE "sitting")]

\* a lifestyle entry for each of the latest n days, newest first: weekend
\* days are days of high stress, little activity and short sleep
PatternLifestyle(n) ==
  [i \in 1..n |->
     IF DayName(1 - i) \in {"Saturday", "Sunday"}
     THEN Lifestyle(1 - i, 5, "high", 55, IF i % 2 = 0 THEN "high" ELSE "severe")
     ELSE Lifestyle(1 - i, 40, "low", 75, "low")]

\* what the queries of the pattern analysis can return
PatternData ==
  LET readings ==
        {PatternReadings(28, 120, 20, 0, 0), PatternReadings(28, 120, 30, 10, -20),
         PatternReadings(28, 130, -20, -10, 14), PatternReadings(28, 120, 0, 15, 0),
         PatternReadings(28, 120, 4, 28, 2), PatternReadings(9, 118, 3, 0, 0),
         SwingReadings(16), RepeatReadings(7, 1, 135, 86, NoneInt)}
      lifestyle ==
        {<<>>, PatternLifestyle(14), <<Lifestyle(0, 45, "low", 75, "low")>>}
  IN  {DataSet(Profile(50, "Hypertension"), r, <<>>, <<>>, l) :
         r \in readings, l \in lifestyle}

\* SwingReadings with the times of day exchanged: 190/125 in the evening
EveningReadings(n) ==
  [i \in 1..n |->
     IF i > 14 THEN Reading(140, 88, 70, 1 - i, NoneStr, NoneStr)
     ELSE IF i % 2 = 1 THEN Reading(190, 125, 72, 1 - i, "evening", "sitting")
     ELSE Reading(150, 95, 72, 1 - i, "morning", "sitting")]

\* n daily readings, newest first: the latest high ones are 150/95, the
\* others 120/78
MixedReadings(n, high) ==
  [i \in 1..n |->
     IF i <= high THEN Reading(150, 95, 70, 1 - i, NoneStr, NoneStr)
     ELSE Reading(120, 78, 70, 1 - i, NoneStr, NoneStr)]

\* what the queries of the insights can return: readings about the shares
\* of elevated and of normal readings that the insights test, adherence
\* rates about 85 and 95, and data in which every analysis finds something
InsightData ==
  LET readings ==
        {EveningReadings(16), SwingReadings(16), MixedReadings(10, 3), MixedReadings(10, 4),
         MixedReadings(14, 7), MixedReadings(14, 8), MixedReadings(7, 4)}
      medications ==
        {<<Medication("Lisinopril", TRUE, 60)>>, <<Medication("Lisinopril", TRUE, 0)>>,
         <<Medication("Lisinopril", TRUE, 95), Medication("Amlodipine", TRUE, 84)>>,
         <<Medication("Lisinopril", TRUE, 95), Medication("Amlodipine", TRUE, 85)>>,
         <<Medication("Lisinopril", TRUE, 96), Medication("Amlodipine", FALSE, 20)>>}
      lifestyle ==
        {<<Lifestyle(0, 10, "high", 55, "severe")>>, <<Lifestyle(0, 45, "high", 55, "high")>>}
  IN  {DataSet(Profile(50, "Hypertension"), r, m, <<>>, l) :
         r \in readings, m \in medications, l \in lifestyle}

RoutineInput(kind, patient_id, days, metric, D) ==
  [kind |-> kind, patient_id |-> patient_id, days |-> days, metric |-> metric, D |-> D]

RoutineInputs ==
  {RoutineInput(k, p, d, NoneStr, D) :
     k \in AnalysisTypes \ {"forecast"}, p \in Patients, d \in RoutineDays, D \in RoutineData}
  \cup {RoutineInput("insights", "p1", 30, NoneStr, D) : D \in InsightData}
  \cup {RoutineInput("risk_assessment", "p1", 30, NoneStr, D) : D \in RiskData}
  \cup {RoutineInput("health_score", "p1", d, NoneStr, D) :
          d \in RoutineDays, D \in HealthData}
  \cup {RoutineInput("health_score", "p1", 0, NoneStr, D) : D \in HealthDataOfNow}
  \cup {RoutineInput("predictions", "p1", 30, NoneStr, D) : D \in PredictionData}
  \cup {RoutineInput("correlations", "p1", 30, NoneStr, D) : D \in CorrelationData}
  \cup {RoutineInput("patterns", "p1", 30, NoneStr, D) : D \in PatternData}
  \cup {RoutineInput("forecast", p, 30, m, D) :
          p \in Patients, m \in {"systolic", "diastolic", "pulse", "bpm"}, D \in ForecastData}

\* the times of day of the runs
Clocks == {"09:00", "09:30"}

\* the routine of the kind, called as its handler calls it
RunRoutine(i, clock, seed) ==
  CASE i.kind = "insights" -> GenerateInsights(i.patient_id, i.days, i.D, clock, seed)
    [] i.kind = "risk_assessment" -> CalculateRiskAssessment(i.patient_id, i.days, i.D)
    [] i.kind = "predictions" -> CalculatePredictions(i.patient_id, i.days, i.D)
    [] i.kind = "health_score" -> CalculateHealthScore(i.patient_id, i.days, i.D)
    [] i.kind = "patterns" -> AnalyzePatterns(i.patient_id, i.days, i.D)
    [] i.kind = "correlations" -> AnalyzeCorrelations(i.patient_id, i.days, i.D)
    [] i.kind = "forecast" -> GenerateForecast(i.patient_id, i.metric, i.days, i.D)

RunFirst(clock, seed) ==
  /\ run1 = None
  /\ run1' = RunRoutine(inp, clock, seed)
  /\ UNCHANGED <<cache, now, used, last, db, client, nreq, inp, run2, calls>>

RunSecond(clock, seed) ==
  /\ run1 # None
  /\ run2 = None
  /\ run2' = RunRoutine(inp, clock, seed)
  /\ UNCHANGED <<cache, now, used, last, db, client, nreq, inp, run1, calls>>

InitRoutines ==
  /\ cache = [created |-> FALSE, items |-> <<>>]
  /\ now = 0
  /\ used = <<>>
  /\ last = NoOutcome
  /\ db = [p \in Patients |-> 0]
  /\ client = NoClient
  /\ nreq = 0
  /\ inp \in RoutineInputs
  /\ run1 = None
  /\ run2 = None
  /\ calls = <<>>

NextRoutines ==
  \/ \E c \in Clocks, u \in Uuids : RunFirst(c, u)
  \/ \E c \in Clocks, u \in Uuids : RunSecond(c, u)

SpecRoutines == InitRoutines /\ [][NextRoutines]_vars

----------------------------------------------------------------------------
(* Properties of the cache (SpecCache) *)

\* the items of cache c that have not expired at time t, as a set
LiveItems(c, t) == {c.items[i] : i \in {j \in 1..Len(c.items) : t < c.items[j].expires}}

\* the patient ids from which a key is derived
KeyOwners(key) == {a[1] : a \in {b \in KeyArgs : KeyTable[b] = key}}

\* C1: invalidate(p) removes every entry stored under patient id p, for every
\* kind and parameter set, and leaves every entry stored under another
\* patient id present and unchanged.
C1_InvalidateRemovesPatientEntries ==
  [][last'.op = "invalidate" =>
       LET p == last'.patient_id
       IN  /\ \A e \in LiveItems(cache', now) : p \notin KeyOwners(e.key)
           /\ \A e \in LiveItems(cache, now) :
                p \notin KeyOwners(e.key) => e \in LiveItems(cache', now)]_vars

KwargsSet(kwargs) == {kwargs[i] : i \in 1..Len(kwargs)}

\* two calls are given the same key exactly when they agree on the patient
\* id, the kind and every parameter, in whatever order the parameters come
KeysAgree ==
  \A a, b \in KeyArgs :
     (KeyTable[a] = KeyTable[b])
       <=> (a[1] = b[1] /\ a[2] = b[2] /\ KwargsSet(a[3]) = KwargsSet(b[3]))

\* C8: cache keys are a deterministic, order-independent function of patient
\* id, kind and all parameters, and on every caching path (direct get/set and
\* the cached_analysis decorator) a call is answered from the cache only with
\* what was stored for the same patient id, kind and parameter values, so a
\* result computed for one window length is never returned for another.
C8_KeysCoverAllParameters ==
  [][/\ KeysAgree
     /\ (last'.op = "cached_analysis" /\ last'.hit)
          => last'.result = ValueFor(last'.kwargs[1][2])
     /\ (last'.op = "get" /\ last'.hit)
          => \E i \in 1..Len(used) :
               /\ used[i].key = MakeKey(last'.patient_id, last'.type, last'.kwargs)
               /\ used[i].stored = last'.result]_vars

\* the operation stored a value
IsStore(o) == o.op = "set" \/ (o.op = "cached_analysis" /\ ~o.hit)

\* the key it stored it under
StoreKey(o) ==
  IF o.op = "set" THEN MakeKey(o.patient_id, o.type, o.kwargs)
  ELSE MakeKey(o.patient_id, o.type, NoKwargs)

\* the least recently used (set or returned by a get) of the keys
LruKey(u, keys) ==
  LET h == SelectSeq(u, LAMBDA x : x.key \in keys) IN h[1].key

\* C9: the number of entries never exceeds the configured capacity; a set of
\* a new key into a full cache evicts exactly the least recently used
\* unexpired entry and keeps every other one, and any other set keeps every
\* unexpired entry.
C9_CapacityAndLruEviction ==
  [][/\ Len(cache'.items) <= cache_max_size
     /\ IsStore(last') =>
          LET k == StoreKey(last')
              live == LiveItems(cache, now)
              keys == {e.key : e \in live}
              kept == LiveItems(cache', now)
          IN  IF k \notin keys /\ Cardinality(keys) >= cache_max_size
              THEN /\ {e.key : e \in kept} = (keys \ {LruKey(used, keys)}) \cup {k}
                   /\ \A e \in live : e.key # LruKey(used, keys) => e \in kept
              ELSE /\ {e.key : e \in kept} = keys \cup {k}
                   /\ \A e \in live : e.key # k => e \in kept]_vars

\* a set has just evicted an unexpired entry of a full cache and kept an
\* entry that was set before it
C9_EvictionReached ==
  /\ last.op = "set"
  /\ last.evicted # {}
  /\ Len(cache.items) = cache_max_size
  /\ \E i \in 1..Len(cache.items) : cache.items[i].key \notin last.evicted
                                     /\ cache.items[i].expires < now + cache_ttl
  /\ now > 0

----------------------------------------------------------------------------
(* Properties of the handlers (Spec) *)

IsRequest(o) == o.op = "request"

RequestKey(o) == MakeKey(o.patient_id, o.type, o.kwargs)

\* C2: a request repeated with the same patient id and parameters within the
\* time-to-live of the entry the first one stored, with the patient's data
\* unchanged and the entry neither invalidated nor evicted, returns what the
\* first returned and makes no Database query; for every artifact.
C2_RepeatedRequestServedFromCache ==
  [][IsRequest(last') =>
       \A i \in 1..Len(used) :
          (/\ used[i].key = RequestKey(last')
           /\ now < used[i].setAt + cache_ttl
           /\ used[i].data = db[last'.patient_id])
          => (last'.fetches = <<>> /\ last'.result = used[i].response)]_vars

\* C6: on a cache miss for a patient the store does not hold, the request
\* fails with PatientNotFound carrying the patient id, the only Database
\* query made is the one for the patient, and nothing is stored in the cache.
C6_AbsentPatientNotFound ==
  [][(IsRequest(last') /\ ~last'.hit /\ ~last'.fault /\ db[last'.patient_id] = 0) =>
       /\ last'.result.status_code = 404
       /\ last'.result.body.error.code = "PATIENT_NOT_FOUND"
       /\ last'.result.body.error.details = [patient_id |-> last'.patient_id]
       /\ last'.fetches = <<"patient">>
       /\ KeysOf(cache'.items) = KeysOf(cache.items)
       /\ \A i \in 1..Len(cache.items) : \E j \in 1..Len(cache'.items) :
            cache'.items[j] = cache.items[i]]_vars

\* a request for an absent patient has failed while the cache holds an entry
C6_NotFoundReached ==
  /\ IsRequest(last)
  /\ last.result.status_code = 404
  /\ last.fetches = <<"patient">>
  /\ db[last.patient_id] = 0
  /\ Len(cache.items) = 1

\* C10: a lookup returns an entry only within the time-to-live since the
\* entry was last set: while the entry is neither invalidated nor evicted and
\* its time-to-live has not passed the lookup returns the stored value; once
\* it has passed (or the key is not stored) the lookup returns nothing and
\* the request computes again from the records it fetches then, storing the
\* new artifact with a new time-to-live.
C10_EntryLivesForTtl ==
  [][IsRequest(last') =>
       LET h == UsedOf(used, RequestKey(last'))
       IN  IF h # <<>> /\ now < h[1].setAt + cache_ttl
           THEN last'.cached = h[1].stored
           ELSE /\ last'.cached = None
                /\ ~last'.hit
                /\ last'.fetches # <<>>
                /\ last'.fetches[1] = "patient"
                /\ last'.result.status_code = 200 =>
                     \E i \in 1..Len(used') :
                        /\ used'[i].key = RequestKey(last')
                        /\ used'[i].setAt = now
                        /\ used'[i].data = db[last'.patient_id]
                        /\ used'[i].response = last'.result]_vars

\* a request has found its entry expired and computed the artifact again
C10_ExpiredRecomputed ==
  /\ IsRequest(last)
  /\ last.stale
  /\ ~last.hit
  /\ last.result.status_code = 200
  /\ last.fetches # <<>>

----------------------------------------------------------------------------
(* Properties of the routines (SpecRoutines) *)

Ran(run) == run.tag # "None"

ExistingPatient == inp.D.patient.exists

NonDecreasingPriority(items) ==
  \A i \in 1..Len(items), j \in 1..Len(items) :
     i < j => items[i].priority <= items[j].priority

\* C3: for an existing patient generate_insights returns between 1 and 8
\* insights in order of non-decreasing priority, each with a priority in 1..5
\* and a type among success, warning, info and danger.
C3_InsightsOneToEightSorted ==
  (inp.kind = "insights" /\ ExistingPatient /\ Ran(run1)) =>
     /\ run1.tag = "ok"
     /\ Len(run1.value.items) >= 1
     /\ Len(run1.value.items) <= 8
     /\ NonDecreasingPriority(run1.value.items)
     /\ \A i \in 1..Len(run1.value.items) :
          /\ run1.value.items[i].priority \in 1..5
          /\ run1.value.items[i].type \in {"success", "warning", "info", "danger"}

IsMoreDataNeeded(x) == x.title = "More Data Needed"

\* C4: for an existing patient generate_insights never raises: with fewer
\* readings than the minimum it returns exactly one insight, of type info and
\* priority 3, titled More Data Needed and naming the number of readings and
\* the minimum; with at least the minimum no such insight is returned.
C4_FewReadingsOneInfoInsight ==
  (inp.kind = "insights" /\ ExistingPatient /\ Ran(run1)) =>
     /\ run1.tag = "ok"
     /\ IF Len(inp.D.readings) < min_readings_for_analysis
        THEN /\ Len(run1.value.items) = 1
             /\ run1.value.items[1].type = "info"
             /\ run1.value.items[1].priority = 3
             /\ IsMoreDataNeeded(run1.value.items[1])
             /\ run1.value.items[1].message[2] = Len(inp.D.readings)
             /\ run1.value.items[1].message[3] = min_readings_for_analysis
        ELSE \A i \in 1..Len(run1.value.items) : ~IsMoreDataNeeded(run1.value.items[i])

\* generate_insights has answered a patient with three readings
C4_FewReadingsReached ==
  /\ inp.kind = "insights"
  /\ ExistingPatient
  /\ Len(inp.D.readings) = 3
  /\ inp.D.lifestyle # <<>>
  /\ Ran(run1)
  /\ run1.tag = "ok"
  /\ Len(run1.value.items) = 1

\* C5: each routine other than generate_insights, for an existing patient
\* with fewer readings than the minimum, fails with InsufficientData carrying
\* the number of readings and the minimum, and returns no artifact.
C5_FewReadingsInsufficientData ==
  (/\ inp.kind # "insights"
   /\ ExistingPatient
   /\ Len(inp.D.readings) < min_readings_for_analysis
   /\ Ran(run1)) =>
     /\ run1.tag = "raised"
     /\ run1.value.code = "INSUFFICIENT_DATA"
     /\ run1.value.details = [readings_count |-> Len(inp.D.readings),
                              minimum_required |-> min_readings_for_analysis]

WithoutIdAndTimestamp(run) ==
  IF inp.kind = "insights" /\ run.tag = "ok"
  THEN [run EXCEPT !.value.items =
          [i \in 1..Len(run.value.items) |->
             [run.value.items[i] EXCEPT !.id = "", !.timestamp = ""]]]
  ELSE run

IsRiskAssessment(run) ==
  run # None /\ run.tag = "ok" /\ inp.kind = "risk_assessment"

RiskLevelMatchesScore(a) ==
  /\ a.riskScore \in 0..100
  /\ (a.overallRisk = "critical") <=> (a.riskScore >= 70)
  /\ (a.overallRisk = "high") <=> (a.riskScore >= 50 /\ a.riskScore <= 69)
  /\ (a.overallRisk = "moderate") <=> (a.riskScore >= 30 /\ a.riskScore <= 49)
  /\ (a.overallRisk = "low") <=> (a.riskScore < 30)

C11_RiskScoreAndLevel ==
  /\ IsRiskAssessment(run1) => RiskLevelMatchesScore(run1.value)
  /\ IsRiskAssessment(run2) => RiskLevelMatchesScore(run2.value)

\* a score on the boundary of "high"
C11_BoundaryScoreReached ==
  IsRiskAssessment(run1) /\ run1.value.riskScore = 50 /\ run1.value.overallRisk = "high"

\* C12: the overall health score is the weighted mean of the scores of the
\* categories present, with weights 0.35, 0.25, 0.20, 0.10 and 0.10 divided by
\* the sum of the weights present, rounded to the nearest integer (a half
\* rounded to the even neighbour, as round does, or upwards); without
\* lifestyle entries the Sleep category is in neither the list nor the
\* weighting, whose total is then 0.90.
IsHealthScore(run) ==
  run # None /\ run.tag = "ok" /\ inp.kind = "health_score"

CategoryWeights ==
  ("Blood Pressure Control" :> 35) @@ ("Medication Adherence" :> 25)
  @@ ("Lifestyle Factors" :> 20) @@ ("Monitoring Consistency" :> 10)
  @@ ("Sleep & Recovery" :> 10)

WeightedScores(h) ==
  Sum([i \in 1..Len(h.categories) |->
         h.categories[i].score * CategoryWeights[h.categories[i].name]])

PresentWeight(h) ==
  Sum([i \in 1..Len(h.categories) |-> CategoryWeights[h.categories[i].name]])

SleepPresentWithLifestyle(h) ==
  /\ Field(Take(h.categories, 4), "name")
       = <<"Blood Pressure Control", "Medication Adherence", "Lifestyle Factors",
           "Monitoring Consistency">>
  /\ IF h.lifestyle = <<>>
     THEN Len(h.categories) = 4 /\ PresentWeight(h) = 90
     ELSE /\ Len(h.categories) = 5 /\ PresentWeight(h) = 100
          /\ h.categories[5].name = "Sleep & Recovery"

RoundedWeightedMean(h) ==
  /\ SleepPresentWithLifestyle(h)
  /\ \/ h.overall = RoundHalfEven(WeightedScores(h), PresentWeight(h))
     \/ h.overall = (2 * WeightedScores(h) + PresentWeight(h)) \div (2 * PresentWeight(h))

C12_OverallIsRoundedWeightedMean ==
  /\ IsHealthScore(run1) => RoundedWeightedMean(run1.value)
  /\ IsHealthScore(run2) => RoundedWeightedMean(run2.value)

\* the part of C12 that holds: the Sleep category is present exactly with
\* lifestyle entries, and overall is an integer nearest to the weighted mean
\* of the categories present
NearestToWeightedMean(h) ==
  /\ SleepPresentWithLifestyle(h)
  /\ 2 * (h.overall * PresentWeight(h) - WeightedScores(h)) <= PresentWeight(h)
  /\ 2 * (WeightedScores(h) - h.overall * PresentWeight(h)) <= PresentWeight(h)

C12_OverallNearestToWeightedMean ==
  /\ IsHealthScore(run1) => NearestToWeightedMean(run1.value)
  /\ IsHealthScore(run2) => NearestToWeightedMean(run2.value)

\* C13: for a regression input whose values all equal a constant c, the trend
\* prediction and the forecast compute slope 0 and R-squared 0 (the trend is
\* "stable" and the confidence the lowest one, 30), and every predicted value
\* they output equals c.
IsPredictions(run) ==
  run # None /\ run.tag = "ok" /\ inp.kind = "predictions"

IsForecast(run) ==
  run # None /\ run.tag = "ok" /\ inp.kind = "forecast"

MetricKey(name) ==
  CASE name = "Systolic BP" -> "systolic"
    [] name = "Diastolic BP" -> "diastolic"
    [] name = "Heart Rate" -> "pulse"

\* the values the prediction of a metric is fitted to
FittedValues(key) ==
  IF key = "pulse" THEN Field(SelectSeq(inp.D.readings, HasPulse), key)
  ELSE Field(inp.D.readings, key)

IsConstant(values) ==
  values # <<>> /\ \A i \in 1..Len(values) : values[i] = values[1]

PlausibleLow(key) ==
  CASE key = "systolic" -> 80 [] key = "diastolic" -> 50 [] key = "pulse" -> 40

PlausibleHigh(key) ==
  CASE key = "systolic" -> 200 [] key = "diastolic" -> 130 [] key = "pulse" -> 150

\* c in tenths, brought into the plausible range of the metric
ClampedTenths(key, tenths) ==
  IF tenths < 10 * PlausibleLow(key) THEN 10 * PlausibleLow(key)
  ELSE IF tenths > 10 * PlausibleHigh(key) THEN 10 * PlausibleHigh(key)
  ELSE tenths

ConstantPredicted(run, clamped) ==
  /\ IsPredictions(run) =>
       \A i \in 1..Len(run.value.items) :
         LET p == run.value.items[i]
             values == FittedValues(MetricKey(p.metric))
         IN  IsConstant(values) =>
               /\ p.trend = "stable"
               /\ p.confidence = 30
               /\ p.predictedValue = IF clamped
                                     THEN ClampedTenths(MetricKey(p.metric), 10 * values[1])
                                     ELSE 10 * values[1]
  /\ IsForecast(run) =>
       LET values == Field(run.value.historical, "value")
       IN  IsConstant(values) =>
             \A i \in 1..Len(run.value.forecast) :
               run.value.forecast[i].predicted
                 = IF clamped THEN ClampedTenths(ForecastMetric(inp.metric), values[1])
                   ELSE values[1]

C13_ConstantSeriesPredictsConstant ==
  ConstantPredicted(run1, FALSE) /\ ConstantPredicted(run2, FALSE)

\* C13 as it holds: the predicted values equal c brought into the plausible
\* range of the metric, so they equal c when c lies in that range
C13_ConstantSeriesPredictsClampedConstant ==
  ConstantPredicted(run1, TRUE) /\ ConstantPredicted(run2, TRUE)

\* the prediction from seven systolic readings of 210
C13_ConstantOutsideRangeReached ==
  /\ IsPredictions(run1)
  /\ IsConstant(FittedValues("systolic")) /\ FittedValues("systolic")[1] = 210
  /\ run1.value.items[1].predictedValue = 2000
  /\ run1.value.items[1].confidence = 30

\* C14: for at least 7 readings taken one a day whose systolic values fall by
\* 1 mmHg a day the systolic trend is "improving" and predictedValue is below
\* currentValue; for values rising by 1 mmHg a day the trend is "worsening"
\* and predictedValue is above currentValue.
DailyChangeOf(readings, change) ==
  /\ Len(readings) >= 7
  /\ \A i \in 1..(Len(readings) - 1) :
       /\ readings[i].day = readings[i + 1].day + 1
       /\ readings[i].systolic = readings[i + 1].systolic + change

TrendFollowsSeries(run, clamped) ==
  IsPredictions(run) =>
    LET p == run.value.items[1]
    IN  /\ DailyChangeOf(inp.D.readings, 0 - 1) =>
             /\ p.trend = "improving"
             /\ IF clamped /\ p.currentValue <= 10 * PlausibleLow("systolic")
                THEN p.predictedValue = 10 * PlausibleLow("systolic")
                ELSE p.predictedValue < p.currentValue
        /\ DailyChangeOf(inp.D.readings, 1) =>
             /\ p.trend = "worsening"
             /\ IF clamped /\ p.currentValue >= 10 * PlausibleHigh("systolic")
                THEN p.predictedValue = 10 * PlausibleHigh("systolic")
                ELSE p.predictedValue > p.currentValue

C14_TrendAndDirectionOfPrediction ==
  TrendFollowsSeries(run1, FALSE) /\ TrendFollowsSeries(run2, FALSE)

\* C14 as it holds: the predicted value is below (above) the current value
\* unless the current value is already at or beyond the end of the plausible
\* range, where the predicted value is that end
C14_TrendAndDirectionWithinRange ==
  TrendFollowsSeries(run1, TRUE) /\ TrendFollowsSeries(run2, TRUE)

\* seven readings falling from 83 to 77: current value 80.0, predicted 80
C14_FallingAtLowerEndReached ==
  /\ IsPredictions(run1)
  /\ DailyChangeOf(inp.D.readings, 0 - 1)
  /\ run1.value.items[1].trend = "improving"
  /\ run1.value.items[1].currentValue = 800
  /\ run1.value.items[1].predictedValue = 800

\* C15: every TrendPrediction has an integer confidence in 30..95, a
\* predictedValue in the plausible range of its metric and the timeframe
\* "30 days"; the list holds the systolic and the diastolic prediction, and
\* the pulse prediction exactly when at least 5 readings carry a pulse.
PredictionsInRange(run) ==
  IsPredictions(run) =>
    LET items == run.value.items
        with_pulse == Len(SelectSeq(inp.D.readings, HasPulse))
    IN  /\ \A i \in 1..Len(items) :
             /\ items[i].confidence \in 30..95
             /\ items[i].predictedValue >= 10 * PlausibleLow(MetricKey(items[i].metric))
             /\ items[i].predictedValue <= 10 * PlausibleHigh(MetricKey(items[i].metric))
             /\ items[i].timeframe = <<30, " days">>
        /\ Field(items, "metric")
             = IF with_pulse >= 5 THEN <<"Systolic BP", "Diastolic BP", "Heart Rate">>
               ELSE <<"Systolic BP", "Diastolic BP">>

C15_PredictionsInRange ==
  PredictionsInRange(run1) /\ PredictionsInRange(run2)

\* ten readings of which four carry a pulse: no pulse prediction, and a
\* confidence above the lowest one
C15_NoPulsePredictionReached ==
  /\ IsPredictions(run1)
  /\ Len(SelectSeq(inp.D.readings, HasPulse)) = 4
  /\ Len(run1.value.items) = 2
  /\ run1.value.items[1].confidence > 30

\* C16: in every forecast the band is wider at the last forecast day than at
\* forecast day 1, also for a flat history such as 60 days of 150.
BandWidth(point) == point.upperBound - point.lowerBound

BandWidens(run) ==
  IsForecast(run) =>
    BandWidth(run.value.forecast[Len(run.value.forecast)]) > BandWidth(run.value.forecast[1])

C16_BandWidensWithHorizon ==
  BandWidens(run1) /\ BandWidens(run2)

\* C17: every reported correlation has direction "positive" exactly when its
\* coefficient is above 0 and "negative" otherwise; when the daily systolic
\* averages strictly decrease over the window while the matched daily sodium
\* values strictly increase, the result contains a "Sodium Intake" /
\* "Systolic BP" correlation with direction "negative".
IsCorrelations(run) ==
  run # None /\ run.tag = "ok" /\ inp.kind = "correlations"

SodiumPairs == FactorPairs(inp.D.readings, inp.D.lifestyle, "sodium_mg")

\* the daily systolic averages fall from each date to the next, and the
\* sodium values of the dates that have one (at least two) rise
SodiumRisesAsSystolicFalls ==
  LET daily == FactorPairs(inp.D.readings, inp.D.lifestyle, "diastolic")
  IN  /\ Len(SodiumPairs) >= 2
      /\ \A i \in 1..(Len(daily) - 1) : daily[i][1] > daily[i + 1][1]
      /\ \A i \in 1..(Len(SodiumPairs) - 1) : SodiumPairs[i][2] < SodiumPairs[i + 1][2]

DirectionFollowsCoefficient(run) ==
  \A i \in 1..Len(run.value.correlations) :
    run.value.correlations[i].direction
      = IF run.value.correlations[i].correlation > 0 THEN "positive" ELSE "negative"

SodiumDirections(run) ==
  {run.value.correlations[i].direction :
     i \in {j \in 1..Len(run.value.correlations) :
              /\ run.value.correlations[j].factor1 = "Sodium Intake"
              /\ run.value.correlations[j].factor2 = "Systolic BP"}}

SodiumAlwaysNegative(run) ==
  IsCorrelations(run) =>
    /\ DirectionFollowsCoefficient(run)
    /\ SodiumRisesAsSystolicFalls => SodiumDirections(run) = {"negative"}

C17_OppositeSeriesReportedNegative ==
  SodiumAlwaysNegative(run1) /\ SodiumAlwaysNegative(run2)

\* C17 as it holds: for such series the sodium correlation is reported, and
\* then with direction "negative", exactly when at least 5 dates have both
\* values and the coefficient of their pairs is not below 0.1 in size
SodiumNegativeWhenReported(run) ==
  IsCorrelations(run) =>
    /\ DirectionFollowsCoefficient(run)
    /\ SodiumRisesAsSystolicFalls =>
         SodiumDirections(run)
           = IF Len(SodiumPairs) >= 5 /\ Pearson(SodiumPairs) # None
             THEN {"negative"} ELSE {}

C17_OppositeSeriesNegativeWhenReported ==
  SodiumNegativeWhenReported(run1) /\ SodiumNegativeWhenReported(run2)

\* eight days of falling systolic and rising sodium: coefficient -1
C17_NegativeSodiumReached ==
  /\ IsCorrelations(run1)
  /\ SodiumRisesAsSystolicFalls
  /\ Len(SodiumPairs) = 8
  /\ \E i \in 1..Len(run1.value.correlations) :
       /\ run1.value.correlations[i].factor1 = "Sodium Intake"
       /\ run1.value.correlations[i].correlation = 0 - 1000
       /\ run1.value.correlations[i].direction = "negative"

\* C18: the Pearson helper is absent (None) for every input of fewer than 5
\* pairs, whatever the values, and is symmetric in its two series: with
\* outcome and factor swapped in every pair the result is the same.
FactorKeys ==
  {"sodium_mg", "physical_activity", "sleep_duration", "stress_level", "weight",
   "water_intake", "caffeine_intake", "alcohol_consumption", "diastolic", "pulse"}

PairsOf(factor_key) == FactorPairs(inp.D.readings, inp.D.lifestyle, factor_key)

Swapped(pairs) == [i \in 1..Len(pairs) |-> <<pairs[i][2], pairs[i][1]>>]

C18_PearsonAbsentBelowFiveAndSymmetric ==
  (run1 # None /\ inp.kind = "correlations") =>
    \A key \in FactorKeys :
      /\ Len(PairsOf(key)) < 5 =>
           Pearson(PairsOf(key)) = None /\ Pearson(Swapped(PairsOf(key))) = None
      /\ Pearson(Swapped(PairsOf(key))) = Pearson(PairsOf(key))

\* four sodium pairs on a line give no coefficient; the eight pairs of
\* diastolic and systolic give 1 in either order
C18_FourPairsAndSwappedPairsReached ==
  /\ IsCorrelations(run1)
  /\ Len(PairsOf("sodium_mg")) = 4
  /\ SodiumRisesAsSystolicFalls
  /\ Pearson(PairsOf("sodium_mg")) = None
  /\ Pearson(Swapped(PairsOf("diastolic"))) = [correlation |-> 1000, strength |-> "strong"]

\* C19: a fault raised during a request that is none of the classified
\* analysis errors is answered with a generic internal error whose content
\* does not depend on the fault: two different faults get the same response.
ClassifiedCodes ==
  {"PATIENT_NOT_FOUND", "INSUFFICIENT_DATA", "ANALYSIS_FAILED", "DATABASE_ERROR"}

\* the request ended in an error that is none of the classified ones
Unclassified(outcome) ==
  /\ outcome.op = "request"
  /\ outcome.result.status_code # 200
  /\ \/ "error" \notin DOMAIN outcome.result.body
     \/ outcome.result.body.error.code \notin ClassifiedCodes

C19_FaultsAnsweredAlike ==
  [][(Unclassified(last) /\ Unclassified(last')) => last'.result = last.result]_vars

\* C20: every error a request ends in carries a kind of the taxonomy, a
\* message and details; a query of the store that fails is answered with the
\* kind of the failed data access like any other error of the taxonomy.
C20_ErrorsBelongToTaxonomy ==
  (last.op = "request" /\ last.result.status_code # 200) =>
    /\ DOMAIN last.result.body = {"error"}
    /\ DOMAIN last.result.body.error = {"code", "message", "details"}
    /\ last.result.body.error.code \in ClassifiedCodes

----------------------------------------------------------------------------
(* C21: explicit start and end dates *)

\* the records of a data set dated from start_date to end_date
RecordsBetween(ds, time_range) ==
  LET from == time_range.start_date
      to == time_range.end_date
  IN  [patient |-> FetchPatient(ds),
       readings |-> IF ds = 0 THEN <<>>
                    ELSE SelectSeq(DataSets[ds].readings,
                                   LAMBDA r : from <= r.day /\ r.day <= to),
       medications |-> FetchMedications(ds),
       medication_logs |-> IF ds = 0 THEN <<>>
                           ELSE SelectSeq(DataSets[ds].medication_logs,
                                          LAMBDA l : from <= l.scheduled_day /\ l.scheduled_day <= to),
       lifestyle |-> IF ds = 0 THEN <<>>
                     ELSE SelectSeq(DataSets[ds].lifestyle,
                                    LAMBDA e : from <= e.entry_day /\ e.entry_day <= to)]

\* what the operation answers when its routine is given the records D
AnswerOn(analysis_type, patient_id, days, D, clock, seed) ==
  LET out == CASE analysis_type = "insights" -> GenerateInsights(patient_id, days, D, clock, seed)
               [] analysis_type = "risk_assessment" -> CalculateRiskAssessment(patient_id, days, D)
               [] analysis_type = "predictions" -> CalculatePredictions(patient_id, days, D)
               [] analysis_type = "health_score" -> CalculateHealthScore(patient_id, days, D)
               [] analysis_type = "patterns" -> AnalyzePatterns(patient_id, days, D)
               [] analysis_type = "correlations" -> AnalyzeCorrelations(patient_id, days, D)
  IN  IF out.tag = "raised" THEN RaisedResponse(out.value)
      ELSE IF analysis_type = "insights" THEN Response(200, InsightsResponse(out.value.items))
      ELSE IF analysis_type = "predictions"
      THEN Response(200, TrendPredictionsResponse(out.value.items))
      ELSE Response(200, out.value)

HasDates(outcome) == IsRequest(outcome) /\ outcome.range.tag = "range"

\* C21: a request with explicit start and end dates that is not answered from
\* the cache answers with the artifact of exactly the records dated from the
\* start date to the end date, and a request with explicit dates is never
\* answered from the entry that a request with other dates has just stored.
C21_DatesSelectRecordsAndEntries ==
  [][/\ (HasDates(last') /\ ~last'.hit /\ ~last'.fault) =>
          \E u \in Uuids :
             last'.result = AnswerOn(last'.type, last'.patient_id, DaysOf(last'.range),
                                     RecordsBetween(db[last'.patient_id], last'.range),
                                     now, u)
     /\ (HasDates(last) /\ HasDates(last') /\ last.range # last'.range
           /\ ~last.hit /\ last.result.status_code = 200) =>
          ~(last'.hit /\ RequestKey(last') = RequestKey(last))]_vars

----------------------------------------------------------------------------
(* C22: concurrent requests and the cache (SpecConcurrent) *)

\* the items of the cache stored under a key
ItemsOf(c, key) == {i \in 1..Len(c.items) : c.items[i].key = key}

\* the calls that have stored under a key, and the last of them
Storers(key) == {c \in CallIds : calls[c].stored /\ CallKey(calls[c]) = key}

LastStorer(key) == CHOOSE c \in Storers(key) : \A o \in Storers(key) : calls[o].rank <= calls[c].rank

\* every key of the cache has one item, which holds the whole artifact that
\* the last call to store under the key answered with
EntriesIntact ==
  \A i \in 1..Len(cache.items) :
     LET key == cache.items[i].key
     IN  /\ ItemsOf(cache, key) = {i}
         /\ Storers(key) # {}
         /\ cache.items[i].value = ModelDict(calls[LastStorer(key)].result.body)

\* the items of the keys other than key are in c2 what they are in c1, but
\* for those removed to make room
OthersKept(c1, c2, key) ==
  \A j \in 1..Len(c2.items) :
     c2.items[j].key # key => \E i \in 1..Len(c1.items) : c1.items[i] = c2.items[j]

\* C22: under every interleaving of the lookups, fetches, stores and
\* invalidations of concurrent requests, a key of the cache has exactly one
\* entry, whose value is the complete artifact of the last call that stored
\* under the key; a store changes the entry of no other key and a lookup
\* changes the value of none.
C22_ConcurrentSetsLastWriteWins ==
  [][/\ EntriesIntact'
     /\ (IsRequest(last') /\ ~last'.hit /\ last'.result.status_code = 200) =>
          /\ Cardinality(ItemsOf(cache', RequestKey(last'))) = 1
          /\ OthersKept(cache, cache', RequestKey(last'))
     /\ (last'.op = "get" \/ (IsRequest(last') /\ last'.hit)) =>
          /\ OthersKept(cache, cache', "")
          /\ OthersKept(cache', cache, "")]_vars

\* two calls for one key computed from different records while both were in
\* flight, both have stored, and the cache holds the artifact of the later one
C22_RacingStoresReached ==
  /\ \A c \in CallIds : calls[c].pc = "done" /\ calls[c].stored
  /\ CallKey(calls[1]) = CallKey(calls[2])
  /\ \E c \in CallIds : calls[c].raced
  /\ calls[1].result # calls[2].result
  /\ \E i \in 1..Len(cache.items) :
        /\ cache.items[i].key = CallKey(calls[1])
        /\ cache.items[i].value = ModelDict(calls[LastStorer(CallKey(calls[1]))].result.body)

----------------------------------------------------------------------------
(* C23, C24: the sections of the risk score (SpecRoutines) *)

IsRiskRun == Ran(run1) /\ inp.kind = "risk_assessment" /\ run1.tag = "ok"

\* C23: each section of calculate_risk_assessment adds no more than its
\* budget to the score: blood pressure at most 35 points, medication
\* adherence at most 20, lifestyle at most 25, demographics and history at
\* most 15.
C23_SectionsWithinBudget ==
  IsRiskRun =>
    /\ RiskCategories(inp.D).bp <= 35
    /\ RiskCategories(inp.D).medication <= 20
    /\ RiskCategories(inp.D).lifestyle <= 25
    /\ RiskCategories(inp.D).demographics <= 15

\* the active medications of the input, when each has an adherence rate
ActiveMedications == SelectSeq(inp.D.medications, LAMBDA m : m.active)

AdherenceRecorded ==
  /\ ActiveMedications # <<>>
  /\ \A i \in 1..Len(ActiveMedications) : ActiveMedications[i].adherence_rate # NoneInt

\* what the medication section adds for the sum of k adherence rates
MedicationBand(total, k) ==
  IF total < 70 * k THEN [points |-> 20, impact |-> "high"]
  ELSE IF total < 85 * k THEN [points |-> 12, impact |-> "moderate"]
  ELSE IF total >= 95 * k THEN [points |-> 0, impact |-> "low"]
  ELSE [points |-> 0, impact |-> NoneStr]

\* C24: the medication section follows the average adherence rate of the
\* active medications, for every rate from 0 to 100: below 70 it adds 20
\* points and a high-impact factor, from 70 and below 85 it adds 12 points
\* and a moderate factor, from 95 it adds no points and a low-impact factor,
\* and from 85 and below 95 it adds nothing.
C24_MedicationFollowsAverageAdherence ==
  (IsRiskRun /\ AdherenceRecorded) =>
    LET band == MedicationBand(Sum(Field(ActiveMedications, "adherence_rate")),
                               Len(ActiveMedications))
    IN  /\ RiskCategories(inp.D).medication = band.points
        /\ RiskCategories(inp.D).medication_impact = band.impact

----------------------------------------------------------------------------
(* C25: requests that fail leave the cache alone (Spec) *)

Failed(outcome) == IsRequest(outcome) /\ outcome.result.status_code # 200

\* the entries of a cache: keys with their values
Entries(c) == {<<c.items[i].key, c.items[i].value>> : i \in 1..Len(c.items)}

\* C25: a request that ends in PatientNotFound, InsufficientData, a failed
\* query of the store or any other error leaves the keys of the cache and
\* their values exactly as they were before the request; only a request
\* whose routine returned an artifact stores.
C25_FailedRequestLeavesCache ==
  [][Failed(last') => Entries(cache') = Entries(cache)]_vars

\* with an entry in the cache, a predictions request has ended in
\* InsufficientData, and a request in the failure of a query
C25_FailedWithEntryReached ==
  /\ Failed(last)
  /\ last.type = "predictions"
  /\ Len(cache.items) = 1
  /\ \/ last.fault
     \/ (~last.fault /\ last.result.status_code # 404)

----------------------------------------------------------------------------
(* C26: the order of the patterns (SpecRoutines) *)

IsPatterns == Ran(run1) /\ inp.kind = "patterns" /\ run1.tag = "ok"

SeverityRank(severity) ==
  CASE severity = "high" -> 0 [] severity = "moderate" -> 1 [] severity = "low" -> 2

\* the place of a pattern in the order of detection: time of day, day of
\* week, position, lifestyle, variability
DetectionRank(type) ==
  CASE type \in {"Morning Spike", "Evening Elevation"} -> 1
    [] type \in {"Weekend Effect", "Workweek Stress"} -> 2
    [] type = "Weekly Variation" -> 3
    [] type \in {"Orthostatic Variation", "Orthostatic Hypotension Risk"} -> 4
    [] type = "Stress Response" -> 5
    [] type = "Exercise Benefit" -> 6
    [] type = "Sleep Impact" -> 7
    [] type \in {"High Variability", "Consistent Readings"} -> 8

\* C26: analyze_patterns returns at most 10 patterns; every high-severity
\* pattern comes before every moderate one and every moderate one before
\* every low one, and patterns of the same severity are in the order of
\* their detection.
C26_PatternsBySeverityThenDetection ==
  IsPatterns =>
    LET patterns == run1.value.patterns
    IN  /\ Len(patterns) <= 10
        /\ \A i \in 1..Len(patterns), j \in 1..Len(patterns) :
             i < j =>
               \/ SeverityRank(patterns[i].severity) < SeverityRank(patterns[j].severity)
               \/ /\ patterns[i].severity = patterns[j].severity
                  /\ DetectionRank(patterns[i].type) < DetectionRank(patterns[j].type)

\* patterns of all three severities were detected, a low one before a high
\* one, and two of one severity
C26_ReorderedPatternsReached ==
  /\ IsPatterns
  /\ {run1.value.patterns[i].severity : i \in 1..Len(run1.value.patterns)}
       = {"high", "moderate", "low"}
  /\ run1.value.patterns # DetectedPatterns(inp.D.readings, inp.D.lifestyle)
  /\ Len(run1.value.patterns) = 6

----------------------------------------------------------------------------
(* C27: the points of a forecast (SpecRoutines) *)

WiderLow(key) ==
  CASE key = "systolic" -> 70 [] key = "diastolic" -> 40 [] key = "pulse" -> 30

WiderHigh(key) ==
  CASE key = "systolic" -> 220 [] key = "diastolic" -> 150 [] key = "pulse" -> 180

\* values are in tenths
ForecastWellFormed(run) ==
  IsForecast(run) =>
    LET forecast == run.value.forecast
        key == MetricKey(run.value.metric)
        last_day == run.value.historical[Len(run.value.historical)].date
    IN  /\ Len(forecast) = inp.days
        /\ \A i \in 1..Len(forecast) :
             /\ forecast[i].date = last_day + i
             /\ forecast[i].lowerBound <= forecast[i].predicted
             /\ forecast[i].predicted <= forecast[i].upperBound
             /\ forecast[i].predicted >= 10 * PlausibleLow(key)
             /\ forecast[i].predicted <= 10 * PlausibleHigh(key)
             /\ forecast[i].lowerBound >= 10 * WiderLow(key)
             /\ forecast[i].upperBound <= 10 * WiderHigh(key)

\* C27: every point of a forecast has lowerBound <= predicted <= upperBound,
\* predicted within the plausible range of the metric and the bounds within
\* its wider limits (systolic 70..220, diastolic 40..150, pulse 30..180); the
\* forecast has forecast_days points, dated on the consecutive days after
\* the last day of the history.
C27_ForecastPointsWellFormed ==
  ForecastWellFormed(run1) /\ ForecastWellFormed(run2)

\* a forecast whose prediction was brought down to the top of the plausible
\* range, with a band on both sides that was cut at the wider limit
C27_ClampedForecastReached ==
  /\ IsForecast(run1)
  /\ \E i \in 1..Len(run1.value.forecast) :
        LET point == run1.value.forecast[i]
            key == MetricKey(run1.value.metric)
        IN  /\ point.predicted = 10 * PlausibleHigh(key)
            /\ point.upperBound = 10 * WiderHigh(key)
            /\ point.lowerBound < point.predicted

----------------------------------------------------------------------------
(* C28: which insights a list holds together, and which it leaves out *)

IsInsights(run) == inp.kind = "insights" /\ Ran(run) /\ run.tag = "ok"

Titles(items) == {items[i].title : i \in 1..Len(items)}

\* what the analyses of generate_insights find in the records, before the
\* list is sorted and cut
FoundInsights(D) ==
  IF Len(D.readings) < min_readings_for_analysis THEN <<>>
  ELSE AnalyzeBpPatterns(D.readings, "")
       \o (IF D.medications # <<>> THEN AnalyzeMedicationAdherence(D.medications, "") ELSE <<>>)
       \o (IF D.lifestyle # <<>> THEN AnalyzeLifestyle(D.lifestyle, "") ELSE <<>>)
       \o AnalyzeTimePatterns(D.readings, "")

\* the insights found that the list does not hold
Dropped(found, items) ==
  SelectSeq(found, LAMBDA x : x.title \notin Titles(items))

InsightsConsistent(run) ==
  IsInsights(run) =>
    LET items == run.value.items
        dropped == Dropped(FoundInsights(inp.D), items)
    IN  /\ ~({"Consistently Elevated Readings", "Excellent BP Control"} \subseteq Titles(items))
        /\ ~({"Medication Adherence Alert", "Excellent Medication Adherence"}
               \subseteq Titles(items))
        /\ \A d \in 1..Len(dropped) :
             /\ dropped[d].priority # 1
             /\ \A i \in 1..Len(items) : items[i].priority <= dropped[d].priority

\* C28: no list of generate_insights holds both Consistently Elevated
\* Readings and Excellent BP Control, nor both Medication Adherence Alert and
\* Excellent Medication Adherence; an insight that was found and is left out
\* of the list has a priority number no smaller than that of any insight of
\* the list, and never priority 1.
C28_InsightsExclusiveAndCutByPriority ==
  InsightsConsistent(run1) /\ InsightsConsistent(run2)

\* a list of eight insights that leaves out an insight found before one that
\* it holds, and holds the elevated-readings and the adherence alerts
C28_CutAfterSortReached ==
  /\ IsInsights(run1)
  /\ Len(run1.value.items) = 8
  /\ {"Consistently Elevated Readings", "Medication Adherence Alert"}
       \subseteq Titles(run1.value.items)
  /\ LET found == FoundInsights(inp.D)
     IN  \E i \in 1..Len(found), j \in 1..Len(found) :
            /\ i < j
            /\ found[i].title \notin Titles(run1.value.items)
            /\ found[j].title \in Titles(run1.value.items)

----------------------------------------------------------------------------
(* C29: invalidation and the requests in flight (SpecConcurrent) *)

\* call c answers in this step
Answers(c) == calls[c].pc # "done" /\ calls'[c].pc = "done"

\* C29: with the fetch of a request as its suspension point, once a patient
\* has been invalidated no request for the patient is answered from the cache
\* with an artifact computed from records fetched before the invalidation,
\* and a request that fetched before the invalidation and finishes after it
\* leaves no entry in the cache.
C29_InvalidateOutlivesRequestsInFlight ==
  [][\A c \in CallIds :
       /\ (Answers(c) /\ calls'[c].hit) =>
             \A s \in Storers(CallKey(calls'[c])) :
                s = LastStorer(CallKey(calls'[c])) => ~calls[s].outdated
       /\ (Answers(c) /\ calls[c].outdated) =>
             /\ ~calls'[c].stored
             /\ ItemsOf(cache', CallKey(calls[c])) = {}]_vars

----------------------------------------------------------------------------
(* C30: the health score on every window length (SpecRoutines) *)

StatusOf(score) ==
  IF score >= 85 THEN "excellent"
  ELSE IF score >= 70 THEN "good"
  ELSE IF score >= 50 THEN "fair"
  ELSE "poor"

HealthScoreReturned(run) ==
  /\ run.tag = "ok"
  /\ run.value.tag = "HealthScore"
  /\ run.value.overall \in 0..100
  /\ \A i \in 1..Len(run.value.categories) :
       /\ run.value.categories[i].score \in 0..100
       /\ run.value.categories[i].status = StatusOf(run.value.categories[i].score)
  /\ Len(run.value.improvementAreas) <= 5

\* C30: for an existing patient, whatever the readings, medications and
\* lifestyle entries and whatever the length of the window, 0 days included,
\* calculate_health_score returns a health score and raises nothing; overall
\* and the scores of the categories are integers from 0 to 100, the status of
\* a category is the one of its score, and there are at most 5 improvement
\* areas.
C30_HealthScoreOnEveryWindow ==
  (inp.kind = "health_score" /\ ExistingPatient) =>
     /\ Ran(run1) => HealthScoreReturned(run1)
     /\ Ran(run2) => HealthScoreReturned(run2)
====
